---- MODULE Spec2Model ----
(***************************************************************************)
(* A model of the OrderNet node engine (packages/core): the channel        *)
(* manager and its durable store, the chat protocol, the presence          *)
(* protocol, the vouch protocol and the key-exchange protocol.             *)
(*                                                                         *)
(* Cryptography is symbolic.  A public key is named by its lowercase hex   *)
(* string; the private key of k is held by whoever signs as k.  A          *)
(* signature is the pair (signer, signed bytes); an AEAD ciphertext is the *)
(* pair (key, plaintext) and opens only under the same key.  Random        *)
(* 32-byte group keys and 16-byte message ids are fresh values.            *)
(***************************************************************************)
EXTENDS Integers, Sequences, FiniteSets, Bags, TLC

\* ------------------------------------------------------------------ bounds

\* Facade calls (create, leave, send, restart ...) made in one behaviour.
MaxApi == 3
\* Inbound messages handed to the protocol handlers in one behaviour.
MaxDeliver == 2
\* Key-exchange payloads a node builds in one behaviour.
MaxKeyEx == 2
\* The clock runs from 0 to MaxTime ticks of 60 s.
MaxTime == 3

\* ------------------------------------------------------------ value domains

\* Ed25519 public keys, named by their lowercase hex encoding.
Keys == {"a", "b", "c"}
\* The nodes that run the engine; "c" is a key held outside any modelled node.
Nodes == {"a", "b"}
ChannelIds == {"general", "team"}
Contents == {"hi", "yo"}

Nick(k) == CASE k = "a" -> "alice" [] k = "b" -> "bob" [] OTHER -> "carol"

\* String.prototype.toLowerCase on a hex string.
ToLowerCase(h) ==
  CASE h = "A" -> "a" [] h = "B" -> "b" [] h = "C" -> "c" [] OTHER -> h

\* bytesToHex of a public key: always lowercase.
pubKeyToHex(k) == k

\* Hex strings of the keys as a caller may type them, in either letter case
HexInputs == {"a", "b", "c", "A", "B", "C"}

VARIABLES
  now,          \* Date.now()
  channels,     \* ChannelManager.channels of each node: id -> ChannelState
  dbChannels,   \* table channels of each node's database: id -> row
  dbMessages,   \* table messages of each node's database: set of rows
  subs,         \* chat topics each node's pubsub is subscribed to
  events,       \* what each node's onEvent has emitted, in order
  pendingRecv,  \* handleIncoming calls suspended at await decryptMessage (a bag)
  pendingSend,  \* sendMessage calls suspended at an await
  published,    \* envelopes published on the chat topics
  lastRecv,     \* how the last finished chat handleIncoming of each node ended
  nextKey,      \* the next fresh group key
  nextMsgId,    \* the next fresh message id
  onlinePeers,  \* PresenceProtocol.onlinePeers of each node, in insertion order
  dbPeers,      \* table peers of each node's database: public key -> row
  dbVouches,    \* table vouches of each node's database
  dbJoinReq,    \* table join_requests: <<requester, channel id>> -> row
  pendingVouch, \* vouch handlers and createVouch calls suspended at an await
  keyexOut,     \* key-exchange payloads written to a dialled stream
  pendingKeyEx, \* createKeyExchange calls suspended at await signMessage
  returned,     \* what each node's last facade call with a result returned
  life,         \* each node's started flag, its running parts and its stop() calls
  apiCalls,     \* facade calls made so far
  deliveries    \* inbound messages handled so far

chatVars == <<channels, dbChannels, dbMessages, subs, events, pendingRecv,
              pendingSend, published, lastRecv, nextKey, nextMsgId>>
presenceVars == <<onlinePeers, dbPeers>>
trustVars == <<dbVouches, dbJoinReq, pendingVouch>>
keyexVars == <<keyexOut, pendingKeyEx>>
facadeVars == <<returned, life>>
nonChatVars == <<presenceVars, trustVars, keyexVars, facadeVars>>
\* The chat state the vouch and key-exchange protocols leave alone
chatOnly == <<dbMessages, subs, pendingRecv, pendingSend, published, lastRecv, nextMsgId,
              facadeVars>>
vars == <<now, chatVars, presenceVars, trustVars, keyexVars, facadeVars, apiCalls,
          deliveries>>

\* ------------------------------------------------------------------ crypto

\* ed25519.signAsync(message, privateKey of k)
signMessage(k, message) == [by |-> k, over |-> message]

\* A verification that does not look at who signed
verifySignature_AnySigner(publicKey, message, signature) ==
  signature.over = message

\* ed25519.verifyAsync(signature, message, publicKey), false on any error
verifySignature(publicKey, message, signature) ==
  signature.by = publicKey /\ signature.over = message

\* xchacha20poly1305(groupKey, nonce).encrypt(plaintext)
aeadEncrypt(groupKey, plaintext) == [key |-> groupKey, pt |-> plaintext]

\* xchacha20poly1305(groupKey, nonce).decrypt(ciphertext) succeeds
aeadOpens(groupKey, ciphertext) == ciphertext.key = groupKey

\* encryptMessage: the envelope a sender builds
encryptMessage(content, channelId, groupKey, sender, senderNick, ts, messageId) ==
  LET ciphertext == aeadEncrypt(groupKey, [content |-> content, senderNick |-> senderNick])
  IN [ciphertext   |-> ciphertext,
      senderPubKey |-> sender,
      signature    |-> signMessage(sender, ciphertext),
      timestamp    |-> ts,
      channelId    |-> channelId,
      messageId    |-> messageId]

NoPlain == [content |-> "", senderPubKey |-> "", senderNick |-> "",
            timestamp |-> -1, channelId |-> "", messageId |-> -1]

\* decryptMessage that takes the plaintext without the AEAD's tag check
decryptMessage_NoTag(encrypted, groupKey) ==
  IF ~verifySignature(encrypted.senderPubKey, encrypted.ciphertext, encrypted.signature)
  THEN NoPlain
  ELSE [content      |-> encrypted.ciphertext.pt.content,
        senderPubKey |-> encrypted.senderPubKey,
        senderNick   |-> encrypted.ciphertext.pt.senderNick,
        timestamp    |-> encrypted.timestamp,
        channelId    |-> encrypted.channelId,
        messageId    |-> encrypted.messageId]

\* decryptMessage without the signature check
decryptMessage_NoVerify(encrypted, groupKey) ==
  IF ~aeadOpens(groupKey, encrypted.ciphertext)
  THEN NoPlain
  ELSE [content      |-> encrypted.ciphertext.pt.content,
        senderPubKey |-> encrypted.senderPubKey,
        senderNick   |-> encrypted.ciphertext.pt.senderNick,
        timestamp    |-> encrypted.timestamp,
        channelId    |-> encrypted.channelId,
        messageId    |-> encrypted.messageId]

\* decryptMessage: signature first, then the AEAD; NoPlain stands for null
decryptMessage(encrypted, groupKey) ==
  IF ~verifySignature(encrypted.senderPubKey, encrypted.ciphertext, encrypted.signature)
  THEN NoPlain
  ELSE IF ~aeadOpens(groupKey, encrypted.ciphertext)
  THEN NoPlain
  ELSE [content      |-> encrypted.ciphertext.pt.content,
        senderPubKey |-> encrypted.senderPubKey,
        senderNick   |-> encrypted.ciphertext.pt.senderNick,
        timestamp    |-> encrypted.timestamp,
        channelId    |-> encrypted.channelId,
        messageId    |-> encrypted.messageId]

\* ------------------------------------------------- maps (JavaScript Map, rows)

MapSet(f, k, v) == [x \in DOMAIN f \cup {k} |-> IF x = k THEN v ELSE f[x]]
MapDelete(f, k) == [x \in DOMAIN f \ {k} |-> f[x]]
EmptyMap == [x \in {} |-> 0]

\* --------------------------------------------------------- ChannelStore (db)

\* ChannelStore.save: INSERT ... ON CONFLICT(id) DO UPDATE SET group_key, name.
\* The statement names the columns id, name, group_key, creator_public_key,
\* vouch_threshold, joined_at only: access_mode, invite_only and
\* allowed_members are never written.
ChannelStoreSave(db, config, groupKey) ==
  IF config.id \in DOMAIN db
  THEN MapSet(db, config.id, [db[config.id] EXCEPT !.groupKey = groupKey])
  ELSE MapSet(db, config.id, [groupKey       |-> groupKey,
                              creatorPubKey  |-> config.creatorPubKey,
                              vouchThreshold |-> config.vouchThreshold])

\* DELETE FROM channels WHERE id = ? fails (FOREIGN KEY constraint failed, the
\* pragma foreign_keys is ON) while a row of messages references the channel.
ChannelDeleteThrows(msgs, channelId) == \E m \in msgs : m.channelId = channelId

\* ChannelStore.delete
ChannelStoreDelete(db, msgs, channelId) ==
  IF ChannelDeleteThrows(msgs, channelId) THEN db ELSE MapDelete(db, channelId)

\* ChannelStore.getAll / get: the config a stored row is read back as.  The
\* access columns are not read: the config has no accessMode (undefined, here
\* "none"), no inviteOnly (undefined, which every reader coerces to false) and
\* no allowedMembers (undefined, read as the empty list).
StoredConfig(db, id) ==
  [id             |-> id,
   creatorPubKey  |-> db[id].creatorPubKey,
   vouchThreshold |-> db[id].vouchThreshold,
   accessMode     |-> "none",
   inviteOnly     |-> FALSE,
   allowedMembers |-> {}]

\* --------------------------------------------------------- MessageStore (db)

\* MessageStore.exists
MessageExists(msgs, messageId) == \E m \in msgs : m.messageId = messageId

\* INSERT OR IGNORE INTO messages: a duplicate message_id is ignored (and the
\* row is then not checked further); otherwise the foreign key channel_id ->
\* channels(id) must hold or the statement throws.
MessageSaveThrows(msgs, db, msg) ==
  ~MessageExists(msgs, msg.messageId) /\ msg.channelId \notin DOMAIN db

\* MessageStore.save
MessageStoreSave(msgs, db, msg) ==
  IF MessageExists(msgs, msg.messageId) \/ msg.channelId \notin DOMAIN db
  THEN msgs
  ELSE msgs \cup {msg}

\* MessageStore.getByChannel(channelId, limit): the rows of the channel in
\* ORDER BY timestamp DESC LIMIT limit, reversed.  The result is given as the
\* sets of rows the query can yield (rows of equal timestamp at the cut are
\* taken in no stated order); their order in the list is ascending timestamp.
getByChannel(msgs, channelId, limit) ==
  LET rows == {m \in msgs : m.channelId = channelId}
      size == IF Cardinality(rows) < limit THEN Cardinality(rows) ELSE limit
  IN {R \in SUBSET rows :
        /\ Cardinality(R) = size
        /\ \A r \in R : \A o \in rows \ R : r.timestamp >= o.timestamp}

\* OrderNetNode.getChannelHistory(channelId, limit): nothing for a channel
\* that is not in the channel table, else the rows of getByChannel that
\* decryptMessage opens under the channel's group key (the possible results)
getChannelHistory(chs, msgs, channelId, limit) ==
  IF channelId \notin DOMAIN chs THEN {{}}
  ELSE { {decryptMessage(m, chs[channelId].groupKey) : m \in R} \ {NoPlain} :
           R \in getByChannel(msgs, channelId, limit) }

\* ----------------------------------------------------------- ChannelManager

\* normalizeAllowedMembers without the local identity
normalizeAllowedMembers_NoSelf(self, allowedMembers) ==
  {ToLowerCase(m) : m \in allowedMembers}

\* normalizeAllowedMembers: self plus the lowercased members
normalizeAllowedMembers(self, allowedMembers) ==
  {ToLowerCase(pubKeyToHex(self))} \cup {ToLowerCase(m) : m \in allowedMembers}

\* normalizeConfig: accessMode ?? 'public', inviteOnly ?? false (undefined is
\* FALSE here already), allowedMembers normalized
normalizeConfig(self, config) ==
  [config EXCEPT
     !.accessMode     = IF config.accessMode = "none" THEN "public" ELSE config.accessMode,
     !.allowedMembers = normalizeAllowedMembers(self, config.allowedMembers)]

\* createChannelState: members starts as {creator}
createChannelState(config, groupKey) ==
  [config |-> config, groupKey |-> groupKey,
   members |-> {pubKeyToHex(config.creatorPubKey)}]

\* addMember
addMember(state, pubKey) == [state EXCEPT !.members = @ \cup {pubKeyToHex(pubKey)}]

\* ChannelManager.loadChannels (the constructor): every stored channel
loadChannels(self, db) ==
  [id \in DOMAIN db |->
     addMember(createChannelState(normalizeConfig(self, StoredConfig(db, id)),
                                  db[id].groupKey), self)]

\* hasAccess comparing the hex string as it was typed
hasAccess_CaseSensitive(chs, channelId, memberPubKeyHex) ==
  IF channelId \notin DOMAIN chs THEN FALSE
  ELSE IF ~chs[channelId].config.inviteOnly THEN TRUE
  ELSE memberPubKeyHex \in chs[channelId].config.allowedMembers

\* hasAccess without the allowlist
hasAccess_NoAllowlist(chs, channelId, memberPubKeyHex) == channelId \in DOMAIN chs

\* ChannelManager.hasAccess
hasAccess(chs, channelId, memberPubKeyHex) ==
  IF channelId \notin DOMAIN chs THEN FALSE
  ELSE IF ~chs[channelId].config.inviteOnly THEN TRUE
  ELSE ToLowerCase(memberPubKeyHex) \in
         {ToLowerCase(v) : v \in chs[channelId].config.allowedMembers}

\* The config createChannel builds for a new channel
NewConfig(self, id, vouchThreshold, options) ==
  [id             |-> id,
   creatorPubKey  |-> self,
   vouchThreshold |-> vouchThreshold,
   accessMode     |-> IF options.accessMode = "none" THEN "public" ELSE options.accessMode,
   inviteOnly     |-> options.inviteOnly,
   allowedMembers |-> normalizeAllowedMembers(self, options.allowedMembers)]

NoOptions == [accessMode |-> "none", inviteOnly |-> FALSE, allowedMembers |-> {}]

\* A channel name as typed: with or without the leading '#'
Names == [hash : BOOLEAN, id : ChannelIds]
\* name.startsWith('#') ? name.slice(1) : name
ChannelIdOf(name) == name.id

\* A createChannel that does not look for the id in the channel table
createChannel_Overwrite(self, chs, db, name, vouchThreshold, options, groupKey) ==
  [channels |-> MapSet(chs, name.id,
                  [config |-> [id |-> name.id, creatorPubKey |-> self,
                               vouchThreshold |-> vouchThreshold,
                               accessMode |-> options.accessMode,
                               inviteOnly |-> options.inviteOnly,
                               allowedMembers |-> options.allowedMembers],
                   groupKey |-> groupKey, members |-> {self}]),
   db       |-> MapSet(db, name.id, [groupKey |-> groupKey, creatorPubKey |-> self,
                                     vouchThreshold |-> vouchThreshold])]

\* ChannelManager.createChannel; groupKey is what generateGroupKey() returns
createChannel(self, chs, db, name, vouchThreshold, options, groupKey) ==
  LET id     == ChannelIdOf(name)
      config == NewConfig(self, id, vouchThreshold, options)
  IN IF id \in DOMAIN chs
     THEN [channels |-> chs, db |-> db]
     ELSE [channels |-> MapSet(chs, id,
                          createChannelState(normalizeConfig(self, config), groupKey)),
           db       |-> ChannelStoreSave(db, config, groupKey)]

\* ChannelManager.createPrivateChannel
createPrivateChannel(self, chs, db, name, allowedMemberHexes, vouchThreshold, groupKey) ==
  createChannel(self, chs, db, name, vouchThreshold,
                [accessMode |-> "private", inviteOnly |-> TRUE,
                 allowedMembers |-> allowedMemberHexes], groupKey)

\* The order Array.prototype.sort puts strings in (UTF-16 code units): the
\* uppercase letters come before the lowercase ones
CodeUnitRank(h) ==
  CASE h = "A" -> 1 [] h = "B" -> 2 [] h = "C" -> 3
    [] h = "a" -> 4 [] h = "b" -> 5 [] OTHER -> 6

\* slice(0, 16) of a hex key; the keys' names stand for hex strings that
\* differ within their first 16 digits
Slice16(h) == h

\* A DM channel id made from the hex argument as it was typed
DmChannelId_AsTyped(selfHex, peerPubKeyHex) ==
  IF CodeUnitRank(selfHex) <= CodeUnitRank(peerPubKeyHex)
  THEN "dm-" \o Slice16(selfHex) \o "-" \o Slice16(peerPubKeyHex)
  ELSE "dm-" \o Slice16(peerPubKeyHex) \o "-" \o Slice16(selfHex)

\* createDmChannel's channelId: [selfHex, peerPubKeyHex.toLowerCase()].sort(),
\* each cut to 16 characters
DmChannelId(selfHex, peerPubKeyHex) ==
  IF CodeUnitRank(selfHex) <= CodeUnitRank(ToLowerCase(peerPubKeyHex))
  THEN "dm-" \o Slice16(selfHex) \o "-" \o Slice16(ToLowerCase(peerPubKeyHex))
  ELSE "dm-" \o Slice16(ToLowerCase(peerPubKeyHex)) \o "-" \o Slice16(selfHex)

\* ChannelManager.createDmChannel
createDmChannel(self, chs, db, peerPubKeyHex, groupKey) ==
  createChannel(self, chs, db,
                [hash |-> FALSE, id |-> DmChannelId(pubKeyToHex(self), peerPubKeyHex)], 1,
                [accessMode |-> "dm", inviteOnly |-> TRUE,
                 allowedMembers |-> {peerPubKeyHex}], groupKey)

\* ChannelManager.inviteMember: false for an unknown channel; a no-op on a
\* channel that is public and not invite-only; else the lowercased member is
\* added to state.config.allowedMembers, inviteOnly is set, and the channel
\* is saved again
inviteMember(chs, db, channelId, memberPubKeyHex) ==
  IF channelId \notin DOMAIN chs
  THEN [ok |-> FALSE, channels |-> chs, db |-> db]
  ELSE LET state == chs[channelId]
       IN IF state.config.accessMode \in {"public", "none"} /\ ~state.config.inviteOnly
          THEN [ok |-> TRUE, channels |-> chs, db |-> db]
          ELSE LET config == [state.config EXCEPT
                                !.allowedMembers = @ \cup {ToLowerCase(memberPubKeyHex)},
                                !.inviteOnly = TRUE]
               IN [ok       |-> TRUE,
                   channels |-> MapSet(chs, channelId, [state EXCEPT !.config = config]),
                   db       |-> ChannelStoreSave(db, config, state.groupKey)]

\* ChannelManager.joinChannel
joinChannel(self, chs, db, config, groupKey) ==
  [channels |-> MapSet(chs, config.id,
                  addMember(createChannelState(normalizeConfig(self, config), groupKey),
                            self)),
   db       |-> ChannelStoreSave(db, config, groupKey)]

\* ChannelManager.leaveChannel: the Map entry goes first, then the row, whose
\* DELETE may throw and leave the row behind
leaveChannel(chs, db, msgs, channelId) ==
  [channels |-> MapDelete(chs, channelId),
   db       |-> ChannelStoreDelete(db, msgs, channelId)]

\* ------------------------------------------------------------------- events

MessageEvent(plain) == [type |-> "message", message |-> plain]
ErrorEvent(what) == [type |-> "error", error |-> what]

Emit(n, e) == events' = [events EXCEPT ![n] = Append(@, e)]

\* ---------------------------------------------------------------- the state

NoRecv == [messageId |-> -1, outcome |-> "none"]

\* A node after start(): the presence timer runs, the vouch and key-exchange
\* handlers are registered, the transport runs, the database is open, and no
\* stop() has been called
Started ==
  [started |-> TRUE, timerOn |-> TRUE, handlersOn |-> TRUE, transportOn |-> TRUE,
   dbOpen |-> TRUE, awaiting |-> 0, unhandles |-> 0, transportStops |-> 0, dbCloses |-> 0]

Init ==
  /\ now = 0
  /\ channels = [n \in Nodes |-> EmptyMap]
  /\ dbChannels = [n \in Nodes |-> EmptyMap]
  /\ dbMessages = [n \in Nodes |-> {}]
  /\ subs = [n \in Nodes |-> {}]
  /\ events = [n \in Nodes |-> <<>>]
  /\ pendingRecv = [n \in Nodes |-> EmptyBag]
  /\ pendingSend = [n \in Nodes |-> {}]
  /\ published = {}
  /\ lastRecv = [n \in Nodes |-> NoRecv]
  /\ nextKey = 1
  /\ nextMsgId = 1
  /\ onlinePeers = [n \in Nodes |-> <<>>]
  /\ dbPeers = [n \in Nodes |-> EmptyMap]
  /\ dbVouches = [n \in Nodes |-> {}]
  /\ dbJoinReq = [n \in Nodes |-> EmptyMap]
  /\ pendingVouch = [n \in Nodes |-> EmptyBag]
  /\ keyexOut = {}
  /\ pendingKeyEx = [n \in Nodes |-> {}]
  /\ returned = [n \in Nodes |-> "none"]
  /\ life = [n \in Nodes |-> Started]
  /\ apiCalls = 0
  /\ deliveries = 0

\* ------------------------------------------------------- facade: channel calls

\* OrderNetNode.createChannel(name, vouchThreshold): the manager's
\* createChannel, then subscribeToChannel
NodeCreateChannel(n, name, vouchThreshold) ==
  /\ apiCalls < MaxApi
  /\ LET r == createChannel(n, channels[n], dbChannels[n], name, vouchThreshold,
                            NoOptions, nextKey)
     IN /\ channels' = [channels EXCEPT ![n] = r.channels]
        /\ dbChannels' = [dbChannels EXCEPT ![n] = r.db]
  /\ nextKey' = IF ChannelIdOf(name) \in DOMAIN channels[n] THEN nextKey ELSE nextKey + 1
  /\ subs' = [subs EXCEPT ![n] = @ \cup {ChannelIdOf(name)}]
  /\ apiCalls' = apiCalls + 1
  /\ UNCHANGED <<nonChatVars, now, dbMessages, events, pendingRecv, pendingSend, published,
                 lastRecv, nextMsgId, deliveries>>

\* OrderNetNode.createDmChannel(peerPubKeyHex): the manager's createDmChannel,
\* subscribeToChannel, and the id is returned
NodeCreateDmChannel(n, peerPubKeyHex) ==
  /\ apiCalls < MaxApi
  /\ LET id == DmChannelId(pubKeyToHex(n), peerPubKeyHex)
         r  == createDmChannel(n, channels[n], dbChannels[n], peerPubKeyHex, nextKey)
     IN /\ channels' = [channels EXCEPT ![n] = r.channels]
        /\ dbChannels' = [dbChannels EXCEPT ![n] = r.db]
        /\ nextKey' = IF id \in DOMAIN channels[n] THEN nextKey ELSE nextKey + 1
        /\ subs' = [subs EXCEPT ![n] = @ \cup {id}]
        /\ returned' = [returned EXCEPT ![n] = id]
  /\ apiCalls' = apiCalls + 1
  /\ UNCHANGED <<now, dbMessages, events, pendingRecv, pendingSend, published, lastRecv,
                 nextMsgId, presenceVars, trustVars, keyexVars, life, deliveries>>

\* OrderNetNode.inviteToChannel(channelId, peerPubKeyHex)
NodeInviteToChannel(n, channelId, peerPubKeyHex) ==
  /\ apiCalls < MaxApi
  /\ LET r == inviteMember(channels[n], dbChannels[n], channelId, peerPubKeyHex)
     IN /\ channels' = [channels EXCEPT ![n] = r.channels]
        /\ dbChannels' = [dbChannels EXCEPT ![n] = r.db]
        /\ returned' = [returned EXCEPT ![n] = IF r.ok THEN "true" ELSE "false"]
  /\ apiCalls' = apiCalls + 1
  /\ UNCHANGED <<now, dbMessages, subs, events, pendingRecv, pendingSend, published,
                 lastRecv, nextKey, nextMsgId, presenceVars, trustVars, keyexVars, life,
                 deliveries>>

\* OrderNetNode.createPrivateChannel(name, allowedMemberPubKeysHex, vouchThreshold)
NodeCreatePrivateChannel(n, name, allowedHexes, vouchThreshold) ==
  /\ apiCalls < MaxApi
  /\ LET r == createPrivateChannel(n, channels[n], dbChannels[n], name, allowedHexes,
                                   vouchThreshold, nextKey)
     IN /\ channels' = [channels EXCEPT ![n] = r.channels]
        /\ dbChannels' = [dbChannels EXCEPT ![n] = r.db]
  /\ nextKey' = IF ChannelIdOf(name) \in DOMAIN channels[n] THEN nextKey ELSE nextKey + 1
  /\ subs' = [subs EXCEPT ![n] = @ \cup {ChannelIdOf(name)}]
  /\ apiCalls' = apiCalls + 1
  /\ UNCHANGED <<nonChatVars, now, dbMessages, events, pendingRecv, pendingSend, published,
                 lastRecv, nextMsgId, deliveries>>

\* OrderNetNode.leaveChannel(channelId): unsubscribeFromChannel, then the
\* manager's leaveChannel (whose exception goes to the caller)
NodeLeaveChannel(n, channelId) ==
  /\ apiCalls < MaxApi
  /\ subs' = [subs EXCEPT ![n] = @ \ {channelId}]
  /\ LET r == leaveChannel(channels[n], dbChannels[n], dbMessages[n], channelId)
     IN /\ channels' = [channels EXCEPT ![n] = r.channels]
        /\ dbChannels' = [dbChannels EXCEPT ![n] = r.db]
  /\ apiCalls' = apiCalls + 1
  /\ UNCHANGED <<nonChatVars, now, dbMessages, events, pendingRecv, pendingSend, published,
                 lastRecv, nextKey, nextMsgId, deliveries>>

\* The process is stopped and OrderNetNode.start() runs again on the same
\* database: the ChannelManager constructor reloads the table, every stored
\* channel is subscribed, and the suspended calls of the old process are gone.
Restart(n) ==
  /\ apiCalls < MaxApi
  /\ channels' = [channels EXCEPT ![n] = loadChannels(n, dbChannels[n])]
  /\ subs' = [subs EXCEPT ![n] = DOMAIN dbChannels[n]]
  /\ pendingRecv' = [pendingRecv EXCEPT ![n] = EmptyBag]
  /\ pendingSend' = [pendingSend EXCEPT ![n] = {}]
  /\ onlinePeers' = [onlinePeers EXCEPT ![n] = <<>>]
  /\ pendingVouch' = [pendingVouch EXCEPT ![n] = EmptyBag]
  /\ pendingKeyEx' = [pendingKeyEx EXCEPT ![n] = {}]
  /\ apiCalls' = apiCalls + 1
  /\ UNCHANGED <<now, dbChannels, dbMessages, events, published, lastRecv, nextKey,
                 nextMsgId, dbPeers, dbVouches, dbJoinReq, keyexOut, facadeVars, deliveries>>

\* ------------------------------------------------------------- ChatProtocol

\* sendMessage up to its first await (signMessage inside encryptMessage): the
\* channel lookup, the access check and the envelope, whose timestamp, message
\* id and ciphertext are fixed before the signature is awaited.
SendStart(n, channelId, content) ==
  /\ apiCalls < MaxApi
  /\ apiCalls' = apiCalls + 1
  /\ IF channelId \notin DOMAIN channels[n]
     THEN UNCHANGED <<events, pendingSend, nextMsgId>>
     ELSE IF ~hasAccess(channels[n], channelId, pubKeyToHex(n))
     THEN /\ Emit(n, ErrorEvent("Access denied"))
          /\ UNCHANGED <<pendingSend, nextMsgId>>
     ELSE /\ pendingSend' = [pendingSend EXCEPT ![n] = @ \cup
               {[stage |-> "sign", topic |-> channelId,
                 env |-> encryptMessage(content, channelId, channels[n][channelId].groupKey,
                                        n, Nick(n), now, nextMsgId)]}]
          /\ nextMsgId' = nextMsgId + 1
          /\ UNCHANGED events
  /\ UNCHANGED <<nonChatVars, now, channels, dbChannels, dbMessages, subs, pendingRecv, published,
                 lastRecv, nextKey, deliveries>>

\* sendMessage from the signature to its second await: pubsub.publish
SendPublish(n, s) ==
  /\ s \in pendingSend[n] /\ s.stage = "sign"
  /\ published' = published \cup {[from |-> n, topic |-> s.topic, env |-> s.env]}
  /\ pendingSend' = [pendingSend EXCEPT ![n] = (@ \ {s}) \cup {[s EXCEPT !.stage = "publish"]}]
  /\ UNCHANGED <<nonChatVars, now, channels, dbChannels, dbMessages, subs, events, pendingRecv,
                 lastRecv, nextKey, nextMsgId, apiCalls, deliveries>>

\* sendMessage after publish: messageStore.save, whose exception rejects the
\* caller's promise
SendSave(n, s) ==
  /\ s \in pendingSend[n] /\ s.stage = "publish"
  /\ dbMessages' = [dbMessages EXCEPT ![n] = MessageStoreSave(@, dbChannels[n], s.env)]
  /\ pendingSend' = [pendingSend EXCEPT ![n] = @ \ {s}]
  /\ UNCHANGED <<nonChatVars, now, channels, dbChannels, subs, events, pendingRecv, published,
                 lastRecv, nextKey, nextMsgId, apiCalls, deliveries>>

\* handleIncoming(channelId, data) up to its await, for a gossipsub message on
\* the topic of channelId: the dedup check and the channel lookup.  The group
\* key is read here, as the argument of decryptMessage.
RecvStart(n, topic, env) ==
  /\ deliveries < MaxDeliver
  /\ deliveries' = deliveries + 1
  /\ topic \in subs[n]
  /\ IF MessageExists(dbMessages[n], env.messageId)
     THEN UNCHANGED <<pendingRecv, lastRecv>>
     ELSE IF topic \notin DOMAIN channels[n]
     THEN UNCHANGED <<pendingRecv, lastRecv>>
     ELSE /\ pendingRecv' = [pendingRecv EXCEPT ![n] = @ (+) SetToBag(
               {[topic |-> topic, env |-> env,
                 groupKey |-> channels[n][topic].groupKey]})]
          /\ UNCHANGED lastRecv
  /\ UNCHANGED <<nonChatVars, now, channels, dbChannels, dbMessages, subs, events, pendingSend,
                 published, nextKey, nextMsgId, apiCalls>>

\* How a resumed handleIncoming ends
RecvOutcome(n, r) ==
  LET plain == decryptMessage(r.env, r.groupKey)
  IN IF ~verifySignature(r.env.senderPubKey, r.env.ciphertext, r.env.signature)
     THEN "badsig"
     ELSE IF plain = NoPlain THEN "undecryptable"
     ELSE IF ~hasAccess(channels[n], r.topic, pubKeyToHex(plain.senderPubKey)) THEN "denied"
     ELSE IF MessageSaveThrows(dbMessages[n], dbChannels[n], r.env) THEN "error"
     ELSE "accepted"

\* handleIncoming after the await: decryptMessage's result, the access check
\* against the channel table as it is now, save, emit.  An exception of save
\* is caught in start() and becomes an error event.
RecvFinish(n, r) ==
  /\ BagIn(r, pendingRecv[n])
  /\ pendingRecv' = [pendingRecv EXCEPT ![n] = @ (-) SetToBag({r})]
  /\ LET plain == decryptMessage(r.env, r.groupKey)
     IN IF plain = NoPlain
        THEN UNCHANGED <<dbMessages, events>>
        ELSE IF ~hasAccess(channels[n], r.topic, pubKeyToHex(plain.senderPubKey))
        THEN UNCHANGED <<dbMessages, events>>
        ELSE IF MessageSaveThrows(dbMessages[n], dbChannels[n], r.env)
        THEN /\ Emit(n, ErrorEvent("Chat recv error"))
             /\ UNCHANGED dbMessages
        ELSE /\ dbMessages' = [dbMessages EXCEPT ![n] =
                                 MessageStoreSave(@, dbChannels[n], r.env)]
             /\ Emit(n, MessageEvent(plain))
  /\ lastRecv' = [lastRecv EXCEPT ![n] =
                    [messageId |-> r.env.messageId, outcome |-> RecvOutcome(n, r)]]
  /\ UNCHANGED <<nonChatVars, now, channels, dbChannels, subs, pendingSend, published, nextKey,
                 nextMsgId, apiCalls, deliveries>>

\* gossipsub hands a node an envelope another node published (emitSelf is off)
DeliverPublished(n) ==
  \E p \in published :
    /\ p.from # n
    /\ RecvStart(n, p.topic, p.env)

\* Keys whose holders are not the receiving node
Peers(n) == Keys \ {n}

\* The group key a node holds for a topic's channel, if it holds one
ForgedKeys(n, topic) ==
  IF topic \in DOMAIN channels[n] THEN {channels[n][topic].groupKey} ELSE {}

\* An envelope with sender key s, signed by g over its ciphertext, encrypted
\* under group key k, with the given channelId field and message id
Forge(s, g, k, cid, id) ==
  [ciphertext   |-> aeadEncrypt(k, [content |-> "hi", senderNick |-> Nick(s)]),
   senderPubKey |-> s,
   signature    |-> signMessage(g, aeadEncrypt(k, [content |-> "hi", senderNick |-> Nick(s)])),
   timestamp    |-> now,
   channelId    |-> cid,
   messageId    |-> id]

\* What a peer that is not bound by the protocol can put on a topic.  Signed
\* by the sender key and encrypted under the channel's group key: any peer key
\* as the sender and any channelId field.  Otherwise right, but encrypted
\* under key 0, which no channel has; or signed by a key that is not the
\* sender's.  The message id is one in use, or id 0, one of its own.
ForgedEnvelopes(n, topic) ==
  { Forge(s, s, k, cid, id) :
      s \in Peers(n), k \in ForgedKeys(n, topic), cid \in ChannelIds,
      id \in 0 .. (nextMsgId - 1) }
  \cup
  { Forge(s, s, 0, topic, id) : s \in {"b"}, id \in 0 .. (nextMsgId - 1) }
  \cup
  { Forge(s, g, k, topic, id) :
      s \in {"b"}, g \in {"c"}, k \in ForgedKeys(n, topic), id \in 0 .. (nextMsgId - 1) }

\* gossipsub hands a node an envelope of such a peer
DeliverForged(n) ==
  \E topic \in subs[n] : \E env \in ForgedEnvelopes(n, topic) : RecvStart(n, topic, env)


\* --------------------------------------------------------- PresenceProtocol

\* Peers unseen for more than this many ms are pruned by getOnlinePeers
PeerTtlMs == 120000

\* The clock's values: it advances in steps of 60 s
Times == {t * 60000 : t \in 0 .. MaxTime}

Tick ==
  /\ now < MaxTime * 60000
  /\ now' = now + 60000
  /\ UNCHANGED <<chatVars, facadeVars, presenceVars, trustVars, keyexVars, apiCalls, deliveries>>

\* The bytes an announcement's signature covers: {pubKey, nickname, timestamp, channels}
PresencePayload(ann) ==
  [pubKey |-> ann.pubKey, nickname |-> ann.nickname, timestamp |-> ann.timestamp,
   channels |-> ann.channels]

\* The onlinePeers Map, a sequence of entries in insertion order
OnlineHas(m, key) == \E i \in DOMAIN m : m[i].key = key
OnlineGet(m, key) == m[CHOOSE i \in DOMAIN m : m[i].key = key]
\* Map.set: an existing key keeps its place
OnlineSet(m, key, nickname, lastSeen) ==
  LET entry == [key |-> key, nickname |-> nickname, lastSeen |-> lastSeen]
  IN IF OnlineHas(m, key)
     THEN [i \in DOMAIN m |-> IF m[i].key = key THEN entry ELSE m[i]]
     ELSE Append(m, entry)

\* A JSON null where a timestamp is expected: JSON.stringify signs it like any
\* other value
NullTimestamp == -1
\* The number a timestamp is in arithmetic: null counts as 0
ToNumber(t) == IF t = NullTimestamp THEN 0 ELSE t

\* PeerStore.upsert throws when first_seen (INTEGER NOT NULL) is bound to null
PeerStoreUpsertThrows(peer) == peer.firstSeen = NullTimestamp

\* PeerStore.upsert: first_seen is kept on conflict
PeerStoreUpsert(db, peer) ==
  IF peer.publicKey \in DOMAIN db
  THEN MapSet(db, peer.publicKey, [db[peer.publicKey] EXCEPT
                                     !.nickname = peer.nickname,
                                     !.lastSeen = peer.lastSeen])
  ELSE MapSet(db, peer.publicKey, [nickname  |-> peer.nickname,
                                   firstSeen |-> peer.firstSeen,
                                   lastSeen  |-> peer.lastSeen])

\* handleAnnouncement, from the resumption after await verifySignature (before
\* it the handler only parses).  onlinePeers.set comes before peerStore.upsert
\* and the events after it, so an upsert that throws ends the handler with the
\* entry set and nothing emitted.
PresenceRecv(n, ann) ==
  /\ deliveries < MaxDeliver
  /\ deliveries' = deliveries + 1
  /\ IF ~verifySignature(ann.pubKey, PresencePayload(ann), ann.signature)
     THEN UNCHANGED <<onlinePeers, dbPeers, events>>
     ELSE IF pubKeyToHex(ann.pubKey) = pubKeyToHex(n)
     THEN UNCHANGED <<onlinePeers, dbPeers, events>>
     ELSE LET hexKey == pubKeyToHex(ann.pubKey)
              isNew  == ~OnlineHas(onlinePeers[n], hexKey)
              joined == [type |-> "peer-joined", pubKey |-> hexKey, nickname |-> ann.nickname]
              seen   == [type |-> "presence", announcement |-> ann]
              peer   == [publicKey |-> ann.pubKey, nickname |-> ann.nickname,
                         firstSeen |-> ann.timestamp, lastSeen |-> ann.timestamp]
          IN /\ onlinePeers' = [onlinePeers EXCEPT ![n] =
                                  OnlineSet(@, hexKey, ann.nickname, ann.timestamp)]
             /\ IF PeerStoreUpsertThrows(peer)
                THEN UNCHANGED <<dbPeers, events>>
                ELSE /\ dbPeers' = [dbPeers EXCEPT ![n] = PeerStoreUpsert(@, peer)]
                     /\ events' = [events EXCEPT ![n] =
                                     IF isNew THEN @ \o <<joined, seen>> ELSE Append(@, seen)]
  /\ UNCHANGED <<now, channels, dbChannels, chatOnly, nextKey, trustVars, keyexVars,
                 apiCalls>>

\* The entries getOnlinePeers prunes
\* An entry that is never pruned
IsStale_Never(entry) == FALSE

IsStale(entry) == now - ToNumber(entry.lastSeen) > PeerTtlMs
IsFresh(entry) == ~IsStale(entry)
PeerLeft(entry) == [type |-> "peer-left", pubKey |-> entry.key]
\* One peer-left per entry, in the order of the entries
RECURSIVE PeerLeftEvents(_)
PeerLeftEvents(entries) ==
  IF entries = <<>> THEN <<>> ELSE <<PeerLeft(Head(entries))>> \o PeerLeftEvents(Tail(entries))

\* getOnlinePeers: stale entries are deleted, a peer-left is emitted for each
\* in Map order, and the rest is returned
GetOnlinePeers(n) ==
  /\ apiCalls < MaxApi
  /\ apiCalls' = apiCalls + 1
  /\ onlinePeers' = [onlinePeers EXCEPT ![n] = SelectSeq(@, IsFresh)]
  /\ events' = [events EXCEPT ![n] = @ \o PeerLeftEvents(SelectSeq(onlinePeers[n], IsStale))]
  /\ UNCHANGED <<now, channels, dbChannels, chatOnly, nextKey, dbPeers, trustVars,
                 keyexVars, deliveries>>

\* A key other than k, whose signature cannot verify under k
OtherKey(k) == IF k = "c" THEN "b" ELSE "c"

\* The announcements the presence topic can deliver: of any key (the node's
\* own included), with any clock value or null as the timestamp, signed by
\* that key or by another one
Announcements ==
  { [pubKey |-> k, nickname |-> Nick(k), timestamp |-> t, channels |-> <<>>,
     signature |-> signMessage(g, [pubKey |-> k, nickname |-> Nick(k), timestamp |-> t,
                                   channels |-> <<>>])] :
    k \in Keys, g \in Keys, t \in Times \cup {NullTimestamp} }

\* ------------------------------------------------------------- WebOfTrust

\* The bytes a vouch's signature covers
VouchPayload(vouch) ==
  [voucherPubKey |-> vouch.voucherPubKey, voucheePubKey |-> vouch.voucheePubKey,
   channelId |-> vouch.channelId, timestamp |-> vouch.timestamp]

\* A verifyVouch that accepts every signature
verifyVouch_Always(vouch) == TRUE

\* WebOfTrust.verifyVouch
verifyVouch(vouch) == verifySignature(vouch.voucherPubKey, VouchPayload(vouch), vouch.signature)

\* WebOfTrust.getVouchCount
getVouchCount(vouches, pubKey, channelId) ==
  Cardinality({v \in vouches : v.voucheePubKey = pubKey /\ v.channelId = channelId})

\* An insert into a vouches table that has no primary key
VouchInsert_NoKey(vouches, vouch) == vouches \cup {vouch}

\* INSERT OR IGNORE INTO vouches: the primary key is (voucher, vouchee, channel)
VouchInsert(vouches, vouch) ==
  IF \E v \in vouches : /\ v.voucherPubKey = vouch.voucherPubKey
                        /\ v.voucheePubKey = vouch.voucheePubKey
                        /\ v.channelId = vouch.channelId
  THEN vouches
  ELSE vouches \cup {vouch}

\* WebOfTrust.saveVouch: the insert, then vouches_received of the matching
\* join request (if there is one) is set to the count
saveVouch(vouches, reqs, vouch) ==
  LET saved == VouchInsert(vouches, vouch)
      key   == <<vouch.voucheePubKey, vouch.channelId>>
  IN [vouches |-> saved,
      reqs    |-> IF key \in DOMAIN reqs
                  THEN MapSet(reqs, key,
                         [reqs[key] EXCEPT !.vouchesReceived =
                            getVouchCount(saved, vouch.voucheePubKey, vouch.channelId)])
                  ELSE reqs]

\* A createJoinRequest that is INSERT OR REPLACE
createJoinRequest_Replace(reqs, requesterPubKey, channelId, timestamp) ==
  MapSet(reqs, <<requesterPubKey, channelId>>,
         [timestamp |-> timestamp, vouchesReceived |-> 0, status |-> "pending"])

\* WebOfTrust.createJoinRequest: INSERT OR IGNORE
createJoinRequest(reqs, requesterPubKey, channelId, timestamp) ==
  IF <<requesterPubKey, channelId>> \in DOMAIN reqs
  THEN reqs
  ELSE MapSet(reqs, <<requesterPubKey, channelId>>,
              [timestamp |-> timestamp, vouchesReceived |-> 0, status |-> "pending"])

\* WebOfTrust.approveRequest: an UPDATE, which changes nothing without a row
approveRequest(reqs, requesterPubKey, channelId) ==
  IF <<requesterPubKey, channelId>> \in DOMAIN reqs
  THEN MapSet(reqs, <<requesterPubKey, channelId>>,
              [reqs[<<requesterPubKey, channelId>>] EXCEPT !.status = "approved"])
  ELSE reqs

\* processVouchAndCheckThreshold approving whatever the count is
processVouch_AnyCount(db, vouches, reqs, voucheePubKey, channelId) ==
  [approved |-> TRUE, vouchCount |-> getVouchCount(vouches, voucheePubKey, channelId),
   threshold |-> 0, reqs |-> approveRequest(reqs, voucheePubKey, channelId)]

\* processVouchAndCheckThreshold approving only above the threshold
processVouch_Above(db, vouches, reqs, voucheePubKey, channelId) ==
  IF channelId \notin DOMAIN db
  THEN [approved |-> FALSE, vouchCount |-> 0, threshold |-> 0, reqs |-> reqs]
  ELSE LET vouchCount == getVouchCount(vouches, voucheePubKey, channelId)
           threshold  == StoredConfig(db, channelId).vouchThreshold
           approved   == vouchCount > threshold
       IN [approved |-> approved, vouchCount |-> vouchCount, threshold |-> threshold,
           reqs |-> IF approved THEN approveRequest(reqs, voucheePubKey, channelId)
                    ELSE reqs]

\* InviteManager.processVouchAndCheckThreshold: the threshold is the stored
\* row's; the function has no await, so it runs within the caller's step
processVouchAndCheckThreshold(db, vouches, reqs, voucheePubKey, channelId) ==
  IF channelId \notin DOMAIN db
  THEN [approved |-> FALSE, vouchCount |-> 0, threshold |-> 0, reqs |-> reqs]
  ELSE LET vouchCount == getVouchCount(vouches, voucheePubKey, channelId)
           threshold  == StoredConfig(db, channelId).vouchThreshold
           approved   == vouchCount >= threshold
       IN [approved |-> approved, vouchCount |-> vouchCount, threshold |-> threshold,
           reqs |-> IF approved THEN approveRequest(reqs, voucheePubKey, channelId)
                    ELSE reqs]

\* ------------------------------------------------------------ VouchProtocol

\* OrderNetNode.vouchForPeer -> WebOfTrust.createVouch, up to await
\* signMessage: the timestamp is read before the signature is awaited
NodeVouchStart(n, voucheePubKey, channelId) ==
  /\ apiCalls < MaxApi
  /\ apiCalls' = apiCalls + 1
  /\ pendingVouch' = [pendingVouch EXCEPT ![n] = @ (+) SetToBag({
       [stage |-> "sign", approved |-> FALSE,
        vouch |-> [voucherPubKey |-> n, voucheePubKey |-> voucheePubKey,
                   channelId |-> channelId, timestamp |-> now,
                   signature |-> signMessage(n, [voucherPubKey |-> n,
                                                 voucheePubKey |-> voucheePubKey,
                                                 channelId |-> channelId,
                                                 timestamp |-> now])]]})]
  /\ UNCHANGED <<now, chatVars, facadeVars, presenceVars, dbVouches, dbJoinReq, keyexVars, deliveries>>

\* createVouch after the signature: saveVouch
NodeVouchFinish(n, p) ==
  /\ BagIn(p, pendingVouch[n])
  /\ p.stage = "sign"
  /\ pendingVouch' = [pendingVouch EXCEPT ![n] = @ (-) SetToBag({p})]
  /\ LET r == saveVouch(dbVouches[n], dbJoinReq[n], p.vouch)
     IN /\ dbVouches' = [dbVouches EXCEPT ![n] = r.vouches]
        /\ dbJoinReq' = [dbJoinReq EXCEPT ![n] = r.reqs]
  /\ UNCHANGED <<now, chatVars, facadeVars, presenceVars, keyexVars, apiCalls, deliveries>>

\* WebOfTrust.createJoinRequest called by the program that holds the
\* WebOfTrust: the row's timestamp is Date.now()
TrustCreateJoinRequest(n, requesterPubKey, channelId) ==
  /\ apiCalls < MaxApi
  /\ apiCalls' = apiCalls + 1
  /\ dbJoinReq' = [dbJoinReq EXCEPT ![n] =
                     createJoinRequest(@, requesterPubKey, channelId, now)]
  /\ UNCHANGED <<now, chatVars, facadeVars, presenceVars, dbVouches, pendingVouch,
                 keyexVars, deliveries>>

JoinRequestEvent(msg) ==
  [type |-> "join-request",
   request |-> [requesterPubKey |-> msg.requesterPubKey, channelId |-> msg.channelId,
                timestamp |-> msg.timestamp, vouchesReceived |-> 0, status |-> "pending"]]

\* handleIncoming once the stream is read: a join_request is stored and
\* announced at once, a vouch waits for await verifyVouch
VouchRecv(n, msg) ==
  /\ deliveries < MaxDeliver
  /\ deliveries' = deliveries + 1
  /\ IF msg.type = "join_request"
     THEN /\ dbJoinReq' = [dbJoinReq EXCEPT ![n] =
                             createJoinRequest(@, msg.requesterPubKey, msg.channelId, now)]
          /\ Emit(n, JoinRequestEvent(msg))
          /\ UNCHANGED pendingVouch
     ELSE /\ pendingVouch' = [pendingVouch EXCEPT ![n] = @ (+) SetToBag({
               [stage |-> "verify", approved |-> FALSE, vouch |-> msg.vouch]})]
          /\ UNCHANGED <<dbJoinReq, events>>
  /\ UNCHANGED <<now, channels, dbChannels, chatOnly, nextKey, presenceVars, dbVouches,
                 keyexVars, apiCalls>>

\* handleIncoming after await verifyVouch: an invalid vouch ends the handler;
\* a valid one is saved, vouch-received is emitted and
\* processVouchAndCheckThreshold runs, whose promise is then awaited
VouchVerified(n, p) ==
  /\ BagIn(p, pendingVouch[n])
  /\ p.stage = "verify"
  /\ IF ~verifyVouch(p.vouch)
     THEN /\ pendingVouch' = [pendingVouch EXCEPT ![n] = @ (-) SetToBag({p})]
          /\ UNCHANGED <<dbVouches, dbJoinReq, events>>
     ELSE LET s == saveVouch(dbVouches[n], dbJoinReq[n], p.vouch)
              r == processVouchAndCheckThreshold(dbChannels[n], s.vouches, s.reqs,
                                                 p.vouch.voucheePubKey, p.vouch.channelId)
          IN /\ dbVouches' = [dbVouches EXCEPT ![n] = s.vouches]
             /\ dbJoinReq' = [dbJoinReq EXCEPT ![n] = r.reqs]
             /\ Emit(n, [type |-> "vouch-received", vouch |-> p.vouch])
             /\ pendingVouch' = [pendingVouch EXCEPT ![n] =
                  (@ (-) SetToBag({p})) (+)
                  SetToBag({[p EXCEPT !.stage = "emit", !.approved = r.approved]})]
  /\ UNCHANGED <<now, channels, dbChannels, chatOnly, nextKey, presenceVars, keyexVars,
                 apiCalls, deliveries>>

ChannelJoinedEvent(channelId) == [type |-> "channel-joined", channelId |-> channelId]

\* handleIncoming after the threshold check: channel-joined if approved
VouchEmit(n, p) ==
  /\ BagIn(p, pendingVouch[n])
  /\ p.stage = "emit"
  /\ pendingVouch' = [pendingVouch EXCEPT ![n] = @ (-) SetToBag({p})]
  /\ IF p.approved
     THEN Emit(n, ChannelJoinedEvent(p.vouch.channelId))
     ELSE UNCHANGED events
  /\ UNCHANGED <<now, channels, dbChannels, chatOnly, nextKey, presenceVars, dbVouches,
                 dbJoinReq, keyexVars, apiCalls, deliveries>>

\* The streams a peer can open on the vouch protocol: join requests of any
\* peer, and vouches by a peer for a peer, signed by the voucher or by another
\* key
\* The peer that asks to join, and the channel it asks for
Vouchees == {"c"}
VouchChannels == {"general"}
VouchMessages ==
  { [type |-> "join_request", requesterPubKey |-> k, channelId |-> c, timestamp |-> 0] :
      k \in Vouchees, c \in VouchChannels }
  \cup
  { [type |-> "vouch",
     vouch |-> [voucherPubKey |-> k, voucheePubKey |-> e, channelId |-> c, timestamp |-> t,
                signature |-> signMessage(g, [voucherPubKey |-> k, voucheePubKey |-> e,
                                              channelId |-> c, timestamp |-> t])]] :
      k \in Keys \ {"a"}, e \in Vouchees, c \in VouchChannels, t \in {0},
      g \in Keys \ {"a"} }

\* Vouches a peer sends again: the same voucher, vouchee and channel, signed by
\* the voucher at two different times
RepeatedVouches ==
  { [type |-> "vouch",
     vouch |-> [voucherPubKey |-> k, voucheePubKey |-> e, channelId |-> c, timestamp |-> t,
                signature |-> signMessage(k, [voucherPubKey |-> k, voucheePubKey |-> e,
                                              channelId |-> c, timestamp |-> t])]] :
      k \in {"b"}, e \in Vouchees, c \in VouchChannels, t \in {0, 60000} }

\* ------------------------------------------------------ KeyExchangeProtocol

\* A box made for the sender's own key
encryptGroupKeyForPeer_ToSelf(groupKey, recipientEdPub) ==
  [to |-> "a", groupKey |-> groupKey]

\* encryptGroupKeyForPeer: a box only the recipient key's holder opens
encryptGroupKeyForPeer(groupKey, recipientEdPub) == [to |-> recipientEdPub, groupKey |-> groupKey]
\* decryptGroupKeyFromPeer throws unless the box was made for this key
KeyBoxOpens(box, self) == box.to = self

\* The bytes a key-exchange payload's signature covers
KeyExPayload(p) ==
  [senderPubKey |-> p.senderPubKey, recipientPubKey |-> p.recipientPubKey,
   channelId |-> p.channelId, timestamp |-> p.timestamp]

\* sendGroupKey -> InviteManager.createKeyExchange up to await signMessage:
\* nothing without a stored channel; the signed bytes carry this Date.now()
KeyExSendStart(n, recipientPubKey, channelId) ==
  /\ Cardinality(pendingKeyEx[n]) + Cardinality({p \in keyexOut : p.senderPubKey = n}) < MaxKeyEx
  /\ IF channelId \notin DOMAIN dbChannels[n]
     THEN UNCHANGED pendingKeyEx
     ELSE pendingKeyEx' = [pendingKeyEx EXCEPT ![n] = @ \cup {
            [recipientPubKey |-> recipientPubKey, channelId |-> channelId,
             encryptedGroupKey |-> encryptGroupKeyForPeer(dbChannels[n][channelId].groupKey,
                                                          recipientPubKey),
             signature |-> signMessage(n, [senderPubKey |-> n,
                                           recipientPubKey |-> recipientPubKey,
                                           channelId |-> channelId, timestamp |-> now])]}]
  /\ UNCHANGED <<now, chatVars, facadeVars, presenceVars, trustVars, keyexOut, apiCalls, deliveries>>

\* createKeyExchange after the signature: the payload's timestamp is a second
\* Date.now(); sendGroupKey then writes the payload to the dialled stream
KeyExSendFinish(n, s) ==
  /\ s \in pendingKeyEx[n]
  /\ pendingKeyEx' = [pendingKeyEx EXCEPT ![n] = @ \ {s}]
  /\ keyexOut' = keyexOut \cup {
       [senderPubKey |-> n, recipientPubKey |-> s.recipientPubKey, channelId |-> s.channelId,
        encryptedGroupKey |-> s.encryptedGroupKey, timestamp |-> now,
        signature |-> s.signature]}
  /\ UNCHANGED <<now, chatVars, facadeVars, presenceVars, trustVars, apiCalls, deliveries>>

\* handleIncoming once the stream is read: a payload for another recipient is
\* ignored, a box that does not open throws (the error event of start), else
\* joinChannel with the received key and key-received.  The signature is not
\* looked at.
KeyExRecv(n, p) ==
  /\ deliveries < MaxDeliver
  /\ deliveries' = deliveries + 1
  /\ IF p.recipientPubKey # n
     THEN UNCHANGED <<channels, dbChannels, events>>
     ELSE IF ~KeyBoxOpens(p.encryptedGroupKey, n)
     THEN /\ Emit(n, ErrorEvent("KeyEx protocol error"))
          /\ UNCHANGED <<channels, dbChannels>>
     ELSE LET r == joinChannel(n, channels[n], dbChannels[n],
                     [id |-> p.channelId, creatorPubKey |-> p.senderPubKey,
                      vouchThreshold |-> 2, accessMode |-> "none", inviteOnly |-> FALSE,
                      allowedMembers |-> {}],
                     p.encryptedGroupKey.groupKey)
          IN /\ channels' = [channels EXCEPT ![n] = r.channels]
             /\ dbChannels' = [dbChannels EXCEPT ![n] = r.db]
             /\ Emit(n, [type |-> "key-received", channelId |-> p.channelId])
  /\ UNCHANGED <<now, chatOnly, nextKey, presenceVars, trustVars, keyexVars, apiCalls>>

\* The payloads peer "b" can write on the key-exchange protocol: any
\* recipient and channel, a box for this node or for another key, signed by
\* "b" or by another key
ForgedKeyEx(n) ==
  { [senderPubKey |-> k, recipientPubKey |-> r, channelId |-> c,
     encryptedGroupKey |-> encryptGroupKeyForPeer(0, t), timestamp |-> 0,
     signature |-> signMessage(g, [senderPubKey |-> k, recipientPubKey |-> r,
                                   channelId |-> c, timestamp |-> 0])] :
      k \in {"b"}, r \in {n, "c"}, c \in ChannelIds, t \in {n, "c"}, g \in Peers(n) }

\* ------------------------------------------------------------- invite codes

\* Bytes written as hex text (Buffer.toString('hex'), bytesToHex).  A hex text
\* is well formed and whole ("hex"), well formed but of fewer bytes ("short"),
\* broken by a character that is no hex digit ("nonhex"), or no string at all
\* ("missing"); of is what it was made from.
ToHex(bytes) == [form |-> "hex", of |-> bytes]

\* Fewer bytes than the 32 of group key k: a value no generated key equals
ShortBytes(k) == -k - 1

\* Buffer.from(text, 'hex') throws only when text is no string
BufferFromHexThrows(h) == h.form = "missing"
\* A hex decoder that drops the last byte
BufferFromHex_DropsByte(h) == ShortBytes(h.of)

\* Buffer.from(text, 'hex'): the bytes of the leading well-formed pairs,
\* whatever their number
BufferFromHex(h) == IF h.form = "hex" THEN h.of ELSE ShortBytes(h.of)

\* hexToPubKey(String(x)) -> hexToBytes throws on text that is not hex
\* ("undefined" is none); the number of bytes is not looked at
HexToPubKeyThrows(h) == h.form \in {"nonhex", "missing"}
hexToPubKey(h) == IF h.form = "hex" THEN h.of ELSE "short"

\* OrderNetNode.createInviteCode for a channel the node holds: base64url of
\* the JSON text of the payload
createInviteCode(n, channelId) ==
  LET channel == channels[n][channelId]
  IN [kind |-> "json",
      payload |->
        [version          |-> 1,
         id               |-> channel.config.id,
         creatorPubKeyHex |-> ToHex(pubKeyToHex(channel.config.creatorPubKey)),
         vouchThreshold   |-> channel.config.vouchThreshold,
         accessMode       |-> IF channel.config.accessMode = "none" THEN "public"
                              ELSE channel.config.accessMode,
         inviteOnly       |-> channel.config.inviteOnly,
         allowedMembers   |-> channel.config.allowedMembers,
         groupKeyHex      |-> ToHex(channel.groupKey)]]

\* joinWithInviteCode returns null from its first lines or from the catch:
\* text that is no JSON, JSON that is no object, a groupKeyHex that is no
\* string, a creatorPubKeyHex that is no hex text
InviteCodeRejected(code) ==
  \/ code.kind # "json"
  \/ BufferFromHexThrows(code.payload.groupKeyHex)
  \/ HexToPubKeyThrows(code.payload.creatorPubKeyHex)

\* The ChannelConfig joinWithInviteCode builds from a payload
InviteConfig(payload) ==
  [id             |-> payload.id,
   creatorPubKey  |-> hexToPubKey(payload.creatorPubKeyHex),
   vouchThreshold |-> IF payload.vouchThreshold = 0 THEN 1 ELSE payload.vouchThreshold,
   accessMode     |-> IF payload.accessMode = "dm" THEN "dm"
                      ELSE IF payload.accessMode = "private" THEN "private" ELSE "public",
   inviteOnly     |-> payload.inviteOnly,
   allowedMembers |-> payload.allowedMembers]

\* OrderNetNode.joinWithInviteCode
NodeJoinWithInviteCode(n, code) ==
  /\ apiCalls < MaxApi
  /\ apiCalls' = apiCalls + 1
  /\ IF InviteCodeRejected(code)
     THEN /\ returned' = [returned EXCEPT ![n] = "null"]
          /\ UNCHANGED <<channels, dbChannels, subs>>
     ELSE LET config == InviteConfig(code.payload)
              r == joinChannel(n, channels[n], dbChannels[n], config,
                               BufferFromHex(code.payload.groupKeyHex))
          IN /\ channels' = [channels EXCEPT ![n] = r.channels]
             /\ dbChannels' = [dbChannels EXCEPT ![n] = r.db]
             /\ subs' = [subs EXCEPT ![n] = @ \cup {config.id}]
             /\ returned' = [returned EXCEPT ![n] = config.id]
  /\ UNCHANGED <<now, dbMessages, events, pendingRecv, pendingSend, published, lastRecv,
                 nextKey, nextMsgId, presenceVars, trustVars, keyexVars, life, deliveries>>

\* The codes a user can paste that are no code of a channel: text that is no
\* JSON, JSON that is no object, and a code for 'general' of creator "b" and
\* group key 0 with the group key or the creator key damaged
DamagedForms == {"short", "nonhex", "missing"}
DamagedPayload(keyForm, creatorForm) ==
  [version |-> 1, id |-> "general",
   creatorPubKeyHex |-> [form |-> creatorForm, of |-> "b"],
   vouchThreshold |-> 2, accessMode |-> "public", inviteOnly |-> FALSE,
   allowedMembers |-> {}, groupKeyHex |-> [form |-> keyForm, of |-> 0]]
MalformedCodes ==
  {[kind |-> "garbage"], [kind |-> "scalar"]}
  \cup {[kind |-> "json", payload |-> DamagedPayload(f, "hex")] : f \in DamagedForms}
  \cup {[kind |-> "json", payload |-> DamagedPayload("hex", f)] : f \in DamagedForms}

\* ------------------------------------------------------------------- stop()

\* OrderNetNode.stop up to await this.libp2p.stop(): nothing if not started;
\* else PresenceProtocol.stop clears the interval, VouchProtocol.stop and
\* KeyExchangeProtocol.stop unhandle their protocols, and libp2p.stop() is
\* called.  started stays true until the await is over.
stopSync(l) ==
  IF ~l.started THEN l
  ELSE [l EXCEPT !.timerOn = FALSE, !.handlersOn = FALSE,
                 !.unhandles = @ + 1, !.transportStops = @ + 1, !.awaiting = @ + 1]

\* OrderNetNode.stop after the await: db.close(), started = false
stopResume(l) ==
  [l EXCEPT !.transportOn = FALSE, !.dbOpen = FALSE, !.dbCloses = @ + 1,
            !.started = FALSE, !.awaiting = @ - 1]

\* A call of stop(), which the signal handler makes on every signal
NodeStop(n) ==
  /\ apiCalls < MaxApi
  /\ apiCalls' = apiCalls + 1
  /\ life' = [life EXCEPT ![n] = stopSync(@)]
  /\ UNCHANGED <<now, chatVars, presenceVars, trustVars, keyexVars, returned, deliveries>>

\* The transport has shut down and a stop() waiting for it goes on
NodeStopResume(n) ==
  /\ life[n].awaiting > 0
  /\ life' = [life EXCEPT ![n] = stopResume(@)]
  /\ UNCHANGED <<now, chatVars, presenceVars, trustVars, keyexVars, returned, apiCalls,
                 deliveries>>

\* ----------------------------------------------------------- specifications

\* Allowlists a user passes to /private
AllowedInputs == {{"B"}}

\* One node, "a", among peers that are not bound by the protocol.
ChatNext ==
  \/ \E name \in Names : NodeCreateChannel("a", name, 2)
  \/ \E name \in Names : \E allowed \in AllowedInputs :
       NodeCreatePrivateChannel("a", name, allowed, 1)
  \/ \E id \in ChannelIds : NodeLeaveChannel("a", id)
  \/ Restart("a")
  \/ DeliverForged("a")
  \/ \E r \in BagToSet(pendingRecv["a"]) : RecvFinish("a", r)

SpecChat == Init /\ [][ChatNext]_vars

\* Two nodes that both run the engine, and no other sender.
NetNext ==
  \E n \in Nodes :
    \/ \E name \in Names : NodeCreateChannel(n, name, 2)
    \/ \E id \in ChannelIds : \E c \in Contents : SendStart(n, id, c)
    \/ \E s \in pendingSend[n] : SendPublish(n, s)
    \/ \E s \in pendingSend[n] : SendSave(n, s)
    \/ DeliverPublished(n)
    \/ \E r \in BagToSet(pendingRecv[n]) : RecvFinish(n, r)

SpecNet == Init /\ [][NetNext]_vars

\* One node, "a", on a presence topic that delivers announcements in any order.
PresenceNext ==
  \/ Tick
  \/ \E ann \in {x \in Announcements : x.signature.by \in {x.pubKey, OtherKey(x.pubKey)}} :
       PresenceRecv("a", ann)
  \/ GetOnlinePeers("a")

SpecPresence == Init /\ [][PresenceNext]_vars

\* One node, "a", whose peers open vouch streams; the clock does not move.
VouchNext ==
  \/ \E name \in Names, t \in {1, 2} : NodeCreateChannel("a", name, t)
  \/ \E e \in Vouchees, c \in VouchChannels : NodeVouchStart("a", e, c)
  \/ \E p \in BagToSet(pendingVouch["a"]) : NodeVouchFinish("a", p)
  \/ \E msg \in VouchMessages : VouchRecv("a", msg)
  \/ \E p \in BagToSet(pendingVouch["a"]) : VouchVerified("a", p)
  \/ \E p \in BagToSet(pendingVouch["a"]) : VouchEmit("a", p)

SpecVouch == Init /\ [][VouchNext]_vars

\* The vouch node with a program that also files join requests itself; its
\* channel needs one vouch.
JoinReqNext ==
  \/ NodeCreateChannel("a", [hash |-> FALSE, id |-> "general"], 1)
  \/ \E e \in Vouchees, c \in VouchChannels : TrustCreateJoinRequest("a", e, c)
  \/ \E e \in Vouchees, c \in VouchChannels : NodeVouchStart("a", e, c)
  \/ \E p \in BagToSet(pendingVouch["a"]) : NodeVouchFinish("a", p)
  \/ \E msg \in VouchMessages : VouchRecv("a", msg)
  \/ \E p \in BagToSet(pendingVouch["a"]) : VouchVerified("a", p)
  \/ \E p \in BagToSet(pendingVouch["a"]) : VouchEmit("a", p)

SpecJoinReq == Init /\ [][JoinReqNext]_vars

\* The vouch node with a moving clock: it vouches for a peer more than once,
\* and a peer sends it the same vouch signed at different times.
RevouchNext ==
  \/ Tick
  \/ \E name \in Names : NodeCreateChannel("a", name, 2)
  \/ \E e \in Vouchees, c \in VouchChannels : NodeVouchStart("a", e, c)
  \/ \E p \in BagToSet(pendingVouch["a"]) : NodeVouchFinish("a", p)
  \/ \E msg \in RepeatedVouches : VouchRecv("a", msg)
  \/ \E p \in BagToSet(pendingVouch["a"]) : VouchVerified("a", p)
  \/ \E p \in BagToSet(pendingVouch["a"]) : VouchEmit("a", p)

SpecRevouch == Init /\ [][RevouchNext]_vars

\* Node "a" hands group keys to node "b", and a peer forges payloads for "a";
\* the clock does not move.
KeyExNext ==
  \/ \E name \in Names : NodeCreateChannel("a", name, 2)
  \/ \E c \in ChannelIds : KeyExSendStart("a", "b", c)
  \/ \E s \in pendingKeyEx["a"] : KeyExSendFinish("a", s)
  \/ \E p \in keyexOut : KeyExRecv("b", p)
  \/ \E p \in ForgedKeyEx("a") : KeyExRecv("a", p)

SpecKeyEx == Init /\ [][KeyExNext]_vars

\* Node "a" sends on its channels and leaves them while sends are suspended.
LeaveNext ==
  \/ \E name \in Names : NodeCreateChannel("a", name, 2)
  \/ \E id \in ChannelIds : \E c \in Contents : SendStart("a", id, c)
  \/ \E s \in pendingSend["a"] : SendPublish("a", s)
  \/ \E s \in pendingSend["a"] : SendSave("a", s)
  \/ \E id \in ChannelIds : NodeLeaveChannel("a", id)

SpecLeave == Init /\ [][LeaveNext]_vars

\* Node "a" holds public and invite-only channels, and peer "b" writes
\* key-exchange payloads to it.
OverwriteNext ==
  \/ \E name \in Names : NodeCreateChannel("a", name, 2)
  \/ \E name \in Names : \E allowed \in AllowedInputs :
       NodeCreatePrivateChannel("a", name, allowed, 1)
  \/ \E p \in ForgedKeyEx("a") : KeyExRecv("a", p)

SpecOverwrite == Init /\ [][OverwriteNext]_vars

\* Node "a" builds key-exchange payloads while its clock runs.
KeyExClockNext ==
  \/ Tick
  \/ \E name \in Names : NodeCreateChannel("a", name, 2)
  \/ \E c \in ChannelIds : KeyExSendStart("a", "b", c)
  \/ \E s \in pendingKeyEx["a"] : KeyExSendFinish("a", s)

SpecKeyExClock == Init /\ [][KeyExClockNext]_vars

\* The vouch node again, with the key-exchange sender an embedding program may
\* call.  The event loop runs every continuation that is ready; nothing
\* obliges anyone to open a stream or to call the sender.
ApprovalNext ==
  \/ VouchNext
  \/ \E e \in Vouchees, c \in VouchChannels : KeyExSendStart("a", e, c)
  \/ \E s \in pendingKeyEx["a"] : KeyExSendFinish("a", s)

SpecApproval ==
  /\ Init
  /\ [][ApprovalNext]_vars
  /\ WF_vars(\E p \in BagToSet(pendingVouch["a"]) : NodeVouchFinish("a", p))
  /\ WF_vars(\E p \in BagToSet(pendingVouch["a"]) : VouchVerified("a", p))
  /\ WF_vars(\E p \in BagToSet(pendingVouch["a"]) : VouchEmit("a", p))
  /\ WF_vars(\E s \in pendingKeyEx["a"] : KeyExSendFinish("a", s))

\* Two nodes that create channels and pass invite codes to each other, and a
\* user of "a" who pastes text that is no code of a channel.
InviteNext ==
  \/ \E n \in Nodes :
       \/ \E name \in Names : NodeCreateChannel(n, name, 2)
       \/ \E name \in Names : \E allowed \in AllowedInputs :
            NodeCreatePrivateChannel(n, name, allowed, 1)
       \/ \E m \in Nodes \ {n} : \E c \in DOMAIN channels[m] :
            NodeJoinWithInviteCode(n, createInviteCode(m, c))
  \/ \E code \in MalformedCodes : NodeJoinWithInviteCode("a", code)

SpecInvite == Init /\ [][InviteNext]_vars

\* Two nodes in use that are stopped by signals, each signal calling stop().
StopNext ==
  \/ Tick
  \/ \E n \in Nodes : \E name \in Names :
       life[n].started /\ life[n].awaiting = 0 /\ NodeCreateChannel(n, name, 2)
  \/ \E n \in Nodes : NodeStop(n)
  \/ \E n \in Nodes : NodeStopResume(n)

SpecStop == Init /\ [][StopNext]_vars

\* Node "a" creates channels, private ones with an allowlist that leaves "b"
\* out; "b" gets their invite codes, joins and sends.
OutsiderInputs == {{}, {"C"}}
OutsiderNext ==
  \/ \E name \in Names : NodeCreateChannel("a", name, 2)
  \/ \E name \in Names : \E allowed \in OutsiderInputs :
       NodeCreatePrivateChannel("a", name, allowed, 1)
  \/ \E c \in DOMAIN channels["a"] : NodeJoinWithInviteCode("b", createInviteCode("a", c))
  \/ \E id \in ChannelIds : \E c \in Contents : SendStart("b", id, c)
  \/ \E q \in pendingSend["b"] : SendPublish("b", q)
  \/ \E q \in pendingSend["b"] : SendSave("b", q)

SpecOutsider == Init /\ [][OutsiderNext]_vars

\* An invite code written by hand for a channel 'general' of creator "c" and
\* group key 0: marked private, but with inviteOnly false
HandWrittenCode ==
  [kind |-> "json",
   payload |-> [version |-> 1, id |-> "general", creatorPubKeyHex |-> ToHex("c"),
                vouchThreshold |-> 1, accessMode |-> "private", inviteOnly |-> FALSE,
                allowedMembers |-> {}, groupKeyHex |-> ToHex(0)]]

\* The hex strings, in either case, of the nodes other than n
DmPeers(n) == {p \in HexInputs : ToLowerCase(p) \in Nodes \ {n}}

\* Two nodes whose users make public, private and DM channels, pass invite
\* codes, invite peers to channels and restart.
AccessNext ==
  \/ \E n \in Nodes :
       \/ NodeCreateChannel(n, [hash |-> FALSE, id |-> "general"], 2)
       \/ NodeCreatePrivateChannel(n, [hash |-> TRUE, id |-> "team"], {"C"}, 1)
       \/ \E p \in DmPeers(n) : NodeCreateDmChannel(n, p)
       \/ \E m \in Nodes \ {n} : \E c \in DOMAIN channels[m] :
            NodeJoinWithInviteCode(n, createInviteCode(m, c))
       \/ \E id \in DOMAIN channels[n] \cup {"team"} : \E p \in {"c", "B"} :
            NodeInviteToChannel(n, id, p)
       \/ Restart(n)
  \/ NodeJoinWithInviteCode("a", HandWrittenCode)

SpecAccess == Init /\ [][AccessNext]_vars

\* ------------------------------------------------------------------- claims

IsMessageEvent(e) == e.type = "message"
MessageEvents(n) == SelectSeq(events[n], IsMessageEvent)

\* The step resumes the suspended handleIncoming r of node n and ends it
Finishes(n, r) ==
  /\ BagIn(r, pendingRecv[n])
  /\ pendingRecv'[n] = pendingRecv[n] (-) SetToBag({r})
  /\ apiCalls' = apiCalls
  /\ deliveries' = deliveries

\* The step saves no message at node n and emits no message event there
NoAccept(n) ==
  /\ dbMessages'[n] = dbMessages[n]
  /\ SelectSeq(events'[n], IsMessageEvent) = MessageEvents(n)

\* C1: two nodes have each joined the same public channel with createChannel
\* and one of them has sent a message on it; once the other node has handled
\* the published envelope, it has emitted a message event with the same
\* content and the sender's nickname.
C1_JoinedPeerReceives ==
  \A p \in published : \A n \in Nodes \ {p.from} :
    lastRecv[n].messageId = p.env.messageId =>
      \E i \in DOMAIN events[n] :
        /\ events[n][i].type = "message"
        /\ events[n][i].message.messageId = p.env.messageId
        /\ events[n][i].message.content = p.env.ciphertext.pt.content
        /\ events[n][i].message.senderNick = Nick(p.from)

\* C2: for every channel and every message id, at most one message event is
\* emitted, whatever the inbound deliveries and however their handlers overlap.
C2_MessageUniqueness ==
  \A n \in Nodes : \A i, j \in DOMAIN events[n] :
    ( /\ events[n][i].type = "message"
      /\ events[n][j].type = "message"
      /\ events[n][i].message.messageId = events[n][j].message.messageId
      /\ events[n][i].message.channelId = events[n][j].message.channelId )
    => i = j

\* C4: an envelope whose sender has no access to the topic's channel when the
\* handler resumes is neither saved nor emitted; in particular none from a
\* sender outside allowedMembers of an invite-only channel is.
C4_NoAccessNoAccept ==
  [][ \A n \in Nodes : \A r \in BagToSet(pendingRecv[n]) :
        ( /\ Finishes(n, r)
          /\ \/ ~hasAccess(channels[n], r.topic, pubKeyToHex(r.env.senderPubKey))
             \/ /\ r.topic \in DOMAIN channels[n]
                /\ channels[n][r.topic].config.inviteOnly
                /\ r.env.senderPubKey \notin channels[n][r.topic].config.allowedMembers )
        => NoAccept(n) ]_vars

\* C4 witness: a correctly signed envelope that opened under the channel's group
\* key was dropped because its sender had no access.
C4_Witness == lastRecv["a"].outcome = "denied"

\* C5: every envelope the receive path has saved carries a signature that
\* verifies under its sender key over its ciphertext, and an envelope whose
\* signature does not verify changes nothing and emits nothing.
C5_AcceptedVerify ==
  /\ [](\A n \in Nodes : \A m \in dbMessages[n] :
          verifySignature(m.senderPubKey, m.ciphertext, m.signature))
  /\ [][ \A n \in Nodes : \A r \in BagToSet(pendingRecv[n]) :
           ( /\ Finishes(n, r)
             /\ ~verifySignature(r.env.senderPubKey, r.env.ciphertext, r.env.signature) )
           => /\ NoAccept(n)
              /\ UNCHANGED <<channels, dbChannels, dbMessages, subs, events>> ]_vars

\* C5 witness: an envelope whose signature does not verify was handled.
C5_Witness == lastRecv["a"].outcome = "badsig"

\* C6: an envelope whose channelId field differs from the channel id of the
\* topic it arrived on is neither saved nor emitted.
C6_TopicMismatchDropped ==
  [][ \A n \in Nodes : \A r \in BagToSet(pendingRecv[n]) :
        (Finishes(n, r) /\ r.env.channelId # r.topic) => NoAccept(n) ]_vars

\* C10: after leaveChannel(id) the channel is in neither the in-memory table
\* nor the durable channels table.
C10_LeaveRemovesBoth ==
  [][ \A n \in Nodes : \A id \in ChannelIds :
        NodeLeaveChannel(n, id) =>
          (id \notin DOMAIN channels'[n] /\ id \notin DOMAIN dbChannels'[n]) ]_vars


\* C3: while a peer's entry exists its lastSeen never moves backwards: of two
\* valid announcements of one key the newer timestamp wins in either arrival
\* order.
C3_LastSeenMonotonic ==
  [][ \A n \in Nodes : \A k \in Keys :
        (OnlineHas(onlinePeers[n], k) /\ OnlineHas(onlinePeers'[n], k))
        => ToNumber(OnlineGet(onlinePeers'[n], k).lastSeen)
             >= ToNumber(OnlineGet(onlinePeers[n], k).lastSeen) ]_vars



IsKeyReceived(e) == e.type = "key-received"

\* C7: a key-exchange payload whose signature does not verify under
\* senderPubKey over {sender, recipient, channel, timestamp} joins or changes
\* no channel and emits no key-received event.
C7_KeyExSignatureRequired ==
  [][ \A n \in Nodes : \A p \in ForgedKeyEx(n) \cup keyexOut :
        (KeyExRecv(n, p) /\ ~verifySignature(p.senderPubKey, KeyExPayload(p), p.signature))
        => /\ channels' = channels
           /\ dbChannels' = dbChannels
           /\ SelectSeq(events'[n], IsKeyReceived) = SelectSeq(events[n], IsKeyReceived) ]_vars

ChannelJoined(n, channelId) ==
  \E i \in DOMAIN events[n] : events[n][i] = ChannelJoinedEvent(channelId)

\* C8: when a valid vouch arrives for a vouchee and a stored channel and the
\* distinct vouchers stored for (vouchee, channel) are then at least the
\* channel's vouchThreshold, the stored join request for (vouchee, channel) is
\* approved and the handler emits channel-joined for the channel; below the
\* threshold the request stays as it is, the handler emits no channel-joined,
\* and no request is approved nor any channel-joined emitted while every
\* count is below the threshold.
C8_VouchThreshold ==
  /\ [][ \A p \in BagToSet(pendingVouch["a"]) :
           LET e     == p.vouch.voucheePubKey
               c     == p.vouch.channelId
               count == getVouchCount(dbVouches'["a"], e, c)
           IN (VouchVerified("a", p) /\ verifyVouch(p.vouch) /\ c \in DOMAIN dbChannels["a"])
              => IF count >= dbChannels["a"][c].vouchThreshold
                 THEN /\ <<e, c>> \in DOMAIN dbJoinReq["a"]
                           => dbJoinReq'["a"][<<e, c>>].status = "approved"
                      /\ BagIn([p EXCEPT !.stage = "emit", !.approved = TRUE],
                               pendingVouch'["a"])
                 ELSE /\ <<e, c>> \in DOMAIN dbJoinReq["a"]
                           => dbJoinReq'["a"][<<e, c>>].status = dbJoinReq["a"][<<e, c>>].status
                      /\ BagIn([p EXCEPT !.stage = "emit", !.approved = FALSE],
                               pendingVouch'["a"]) ]_vars
  /\ [][ \A p \in BagToSet(pendingVouch["a"]) :
           VouchEmit("a", p)
           => events'["a"] = IF p.approved
                             THEN Append(events["a"], ChannelJoinedEvent(p.vouch.channelId))
                             ELSE events["a"] ]_vars
  /\ [](\A e \in Vouchees : \A c \in VouchChannels :
          (c \in DOMAIN dbChannels["a"]
             => getVouchCount(dbVouches["a"], e, c) < dbChannels["a"][c].vouchThreshold)
          => /\ <<e, c>> \in DOMAIN dbJoinReq["a"] => dbJoinReq["a"][<<e, c>>].status = "pending"
             /\ ~ChannelJoined("a", c))

\* A request approved by the second of two vouches, channel-joined emitted
C8_Witness ==
  /\ "general" \in DOMAIN dbChannels["a"]
  /\ dbChannels["a"]["general"].vouchThreshold = 2
  /\ <<"c", "general">> \in DOMAIN dbJoinReq["a"]
  /\ dbJoinReq["a"][<<"c", "general">>].status = "approved"
  /\ ChannelJoined("a", "general")

Approved(n, e, c) ==
  /\ <<e, c>> \in DOMAIN dbJoinReq[n]
  /\ dbJoinReq[n][<<e, c>>].status = "approved"
  /\ ChannelJoined(n, c)

KeySent(n, e, c) ==
  \E p \in keyexOut : p.senderPubKey = n /\ p.recipientPubKey = e /\ p.channelId = c

\* C9: once a vouchee's join request is approved and channel-joined emitted,
\* the node eventually sends the vouchee a key-exchange payload for the channel.
C9_ApprovalLeadsToKeyExchange ==
  \A e \in Vouchees : \A c \in VouchChannels : Approved("a", e, c) ~> KeySent("a", e, c)

\* C11: a restart on the same database restores the same set of channel ids,
\* each with exactly the group key it had in memory before the restart.
C11_RestartRestoresChannels ==
  [][ \A n \in Nodes :
        Restart(n)
        => /\ DOMAIN channels'[n] = DOMAIN channels[n]
           /\ \A id \in DOMAIN channels[n] :
                channels'[n][id].groupKey = channels[n][id].groupKey ]_vars

\* C12: a restart keeps the access policy: for every joined channel and every
\* peer, hasAccess after the restart equals hasAccess before it.
C12_RestartKeepsAccess ==
  [][ \A n \in Nodes :
        Restart(n)
        => \A id \in DOMAIN channels[n] : \A k \in Keys :
             hasAccess(channels'[n], id, pubKeyToHex(k))
               = hasAccess(channels[n], id, pubKeyToHex(k)) ]_vars

\* C13: after createPrivateChannel(name, allowedHexes) the channel of that id
\* is private and invite-only, its allowedMembers are self and the given keys,
\* and hasAccess is false for every peer outside them.
C13_PrivateChannelIsPrivate ==
  [][ \A n \in Nodes : \A name \in Names : \A allowed \in AllowedInputs :
        NodeCreatePrivateChannel(n, name, allowed, 1)
        => LET id      == ChannelIdOf(name)
               members == {pubKeyToHex(n)} \cup {ToLowerCase(h) : h \in allowed}
           IN /\ channels'[n][id].config.accessMode = "private"
              /\ channels'[n][id].config.inviteOnly
              /\ channels'[n][id].config.allowedMembers = members
              /\ \A k \in Keys \ members : ~hasAccess(channels'[n], id, pubKeyToHex(k)) ]_vars

\* C14: when B calls joinWithInviteCode on the code A's createInviteCode made
\* for channel c, the call returns c's id and B's channel table, in memory
\* and in the store, holds c with A's group key for c.
C14_InviteCodeRoundTrip ==
  [][ \A n \in Nodes : \A m \in Nodes \ {n} : \A c \in DOMAIN channels[m] :
        NodeJoinWithInviteCode(n, createInviteCode(m, c))
        => /\ returned'[n] = c
           /\ c \in DOMAIN channels'[n]
           /\ channels'[n][c].groupKey = channels[m][c].groupKey
           /\ c \in DOMAIN dbChannels'[n]
           /\ dbChannels'[n][c].groupKey = channels[m][c].groupKey ]_vars

\* b has joined a's 'general' by code, over a channel 'general' of its own
C14_Witness ==
  /\ returned["b"] = "general"
  /\ "general" \in DOMAIN channels["a"]
  /\ "general" \in DOMAIN channels["b"]
  /\ channels["b"]["general"].groupKey = channels["a"]["general"].groupKey
  /\ nextKey > 2

\* C15: for a code that does not decode or parse, or whose group key or
\* creator key is of a wrong length or no valid hex, joinWithInviteCode
\* returns null and changes neither channel table nor the subscriptions.
C15_BadInviteCodeRejected ==
  [][ \A n \in Nodes : \A code \in MalformedCodes :
        NodeJoinWithInviteCode(n, code)
        => /\ returned'[n] = "null"
           /\ UNCHANGED <<channels, dbChannels, subs>> ]_vars

\* The stored vouches of one (voucher, vouchee, channel)
VouchesOf(n, k, e, c) ==
  {v \in dbVouches[n] : v.voucherPubKey = k /\ v.voucheePubKey = e /\ v.channelId = c}

\* The vouchers with a stored vouch for (vouchee, channel)
VouchersFor(n, e, c) ==
  {k \in Keys : VouchesOf(n, k, e, c) # {}}

\* C16: however often createVouch or saveVouch runs for one (voucher,
\* vouchee, channel), one vouch is stored for it: every finished createVouch
\* and every saved inbound vouch leaves a vouch of its voucher in the table,
\* no vouch is ever removed, no (voucher, vouchee, channel) has two rows, and
\* getVouchCount(vouchee, channel) is the number of distinct vouchers.
C16_VouchDedup ==
  /\ [](\A k \in Keys, e \in Vouchees, c \in VouchChannels :
          Cardinality(VouchesOf("a", k, e, c)) <= 1)
  /\ [](\A e \in Vouchees, c \in VouchChannels :
          getVouchCount(dbVouches["a"], e, c) = Cardinality(VouchersFor("a", e, c)))
  /\ [][ /\ dbVouches["a"] \subseteq dbVouches'["a"]
         /\ \A p \in BagToSet(pendingVouch["a"]) :
              \/ NodeVouchFinish("a", p)
              \/ VouchVerified("a", p) /\ verifyVouch(p.vouch)
              => \E v \in dbVouches'["a"] :
                   /\ v.voucherPubKey = p.vouch.voucherPubKey
                   /\ v.voucheePubKey = p.vouch.voucheePubKey
                   /\ v.channelId = p.vouch.channelId ]_vars

\* The same voucher's vouch received twice with different timestamps and the
\* node's own vouch stored, all handlers finished: two vouchers counted
C16_Witness ==
  /\ \E i, j \in DOMAIN events["a"] :
        /\ i < j
        /\ events["a"][i].type = "vouch-received"
        /\ events["a"][j].type = "vouch-received"
        /\ events["a"][i].vouch.voucherPubKey = events["a"][j].vouch.voucherPubKey
        /\ events["a"][i].vouch.timestamp # events["a"][j].vouch.timestamp
  /\ pendingVouch["a"] = EmptyBag
  /\ VouchesOf("a", "a", "c", "general") # {}
  /\ getVouchCount(dbVouches["a"], "c", "general") = 2

\* A vouch whose signature is the voucher's over the vouch's own fields
ValidlySigned(vouch) ==
  verifySignature(vouch.voucherPubKey, VouchPayload(vouch), vouch.signature)

\* C17: an inbound vouch whose signature does not verify under its
\* voucherPubKey over (voucher, vouchee, channel, timestamp) is not saved:
\* the handler's step changes no vouch, no join request and no event and
\* leaves nothing that would emit channel-joined later, and no stored vouch
\* and no vouch-received event ever carries such a vouch.
C17_InvalidVouchDiscarded ==
  /\ [][ \A p \in BagToSet(pendingVouch["a"]) :
           (VouchVerified("a", p) /\ ~ValidlySigned(p.vouch))
           => /\ UNCHANGED <<dbVouches, dbJoinReq, events>>
              /\ pendingVouch'["a"] = pendingVouch["a"] (-) SetToBag({p}) ]_vars
  /\ [](\A i \in DOMAIN events["a"] :
          events["a"][i].type = "vouch-received" => ValidlySigned(events["a"][i].vouch))
  /\ [](\A p \in BagToSet(pendingVouch["a"]) : p.stage = "emit" => ValidlySigned(p.vouch))

\* A vouch with a foreign signature was handled for a pending request that
\* one vouch would approve; only the join request's event is there
C17_Witness ==
  /\ "general" \in DOMAIN dbChannels["a"]
  /\ dbChannels["a"]["general"].vouchThreshold = 1
  /\ <<"c", "general">> \in DOMAIN dbJoinReq["a"]
  /\ dbJoinReq["a"][<<"c", "general">>].status = "pending"
  /\ dbJoinReq["a"][<<"c", "general">>].vouchesReceived = 0
  /\ deliveries = 2
  /\ pendingVouch["a"] = EmptyBag
  /\ dbVouches["a"] = {}
  /\ Len(events["a"]) = 1

\* How many peer-left events of a key a sequence of events holds
RECURSIVE CountLeft(_, _)
CountLeft(evs, key) ==
  IF evs = <<>> THEN 0
  ELSE (IF Head(evs) = [type |-> "peer-left", pubKey |-> key] THEN 1 ELSE 0)
       + CountLeft(Tail(evs), key)

\* An entry whose lastSeen is more than 120 s before the clock
OlderThanTtl(entry) == now - ToNumber(entry.lastSeen) > 120000

\* C18: getOnlinePeers removes every peer whose lastSeen is more than 120 s
\* old, so that it is absent from the returned copy of the map, and emits one
\* peer-left for each; it keeps every other entry and emits no peer-left for
\* a peer it does not remove, so a later call emits none for a removed peer
\* unless an announcement of that peer has put it back.
C18_PruneEmitsPeerLeftOnce ==
  /\ [][ GetOnlinePeers("a") =>
           \A k \in Keys :
             IF OnlineHas(onlinePeers["a"], k) /\ OlderThanTtl(OnlineGet(onlinePeers["a"], k))
             THEN /\ ~OnlineHas(onlinePeers'["a"], k)
                  /\ CountLeft(events'["a"], k) = CountLeft(events["a"], k) + 1
             ELSE /\ OnlineHas(onlinePeers'["a"], k) = OnlineHas(onlinePeers["a"], k)
                  /\ CountLeft(events'["a"], k) = CountLeft(events["a"], k) ]_vars
  /\ [][ \A k \in Keys :
           (~OnlineHas(onlinePeers["a"], k) /\ OnlineHas(onlinePeers'["a"], k))
           => \E ann \in Announcements : ann.pubKey = k /\ PresenceRecv("a", ann) ]_vars
  /\ [][ \A k \in Keys :
           CountLeft(events'["a"], k) # CountLeft(events["a"], k) => GetOnlinePeers("a") ]_vars

\* Two peers were pruned and getOnlinePeers has run at least twice: one
\* peer-left each
C18_Witness ==
  /\ onlinePeers["a"] = <<>>
  /\ CountLeft(events["a"], "b") = 1
  /\ CountLeft(events["a"], "c") = 1
  /\ apiCalls >= 2

\* The peer-joined and peer-left events of one key come in turns; online says
\* whether the last one was a peer-joined
RECURSIVE Alternates(_, _, _)
Alternates(evs, key, online) ==
  IF evs = <<>> THEN TRUE
  ELSE IF Head(evs).type = "peer-joined" /\ Head(evs).pubKey = key
       THEN ~online /\ Alternates(Tail(evs), key, TRUE)
       ELSE IF Head(evs).type = "peer-left" /\ Head(evs).pubKey = key
            THEN online /\ Alternates(Tail(evs), key, FALSE)
            ELSE Alternates(Tail(evs), key, online)

\* An announcement of another peer whose signature verifies
ValidRemote(n, ann) ==
  /\ verifySignature(ann.pubKey, PresencePayload(ann), ann.signature)
  /\ pubKeyToHex(ann.pubKey) # pubKeyToHex(n)

\* C19: handling a valid announcement of another peer emits peer-joined if
\* and only if the peer is not in onlinePeers, and then exactly one presence
\* event; and the peer-joined and peer-left events of one peer alternate,
\* the first being a peer-joined.
C19_JoinedLeftAlternate ==
  /\ [][ \A ann \in Announcements :
           (PresenceRecv("a", ann) /\ ValidRemote("a", ann))
           => events'["a"] =
                events["a"]
                \o (IF OnlineHas(onlinePeers["a"], pubKeyToHex(ann.pubKey))
                    THEN <<>>
                    ELSE <<[type |-> "peer-joined", pubKey |-> pubKeyToHex(ann.pubKey),
                            nickname |-> ann.nickname]>>)
                \o <<[type |-> "presence", announcement |-> ann]>> ]_vars
  /\ [](\A k \in Keys : Alternates(events["a"], k, FALSE))

\* C20: for a started node any number of stop() calls, a call made while an
\* earlier one awaits the transport included, stop the transport and close
\* the database once and unregister the handlers once; when every call has
\* returned the timer is halted, the handlers are gone, the transport is
\* stopped and the database is closed; and stop() on a node that is not
\* started changes nothing.
C20_StopIdempotent ==
  /\ [](\A n \in Nodes :
          /\ life[n].dbCloses <= 1
          /\ life[n].transportStops <= 1
          /\ life[n].unhandles <= 1)
  /\ [](\A n \in Nodes :
          (life[n].transportStops > 0 /\ life[n].awaiting = 0)
          => /\ ~life[n].timerOn /\ ~life[n].handlersOn
             /\ ~life[n].transportOn /\ ~life[n].dbOpen
             /\ life[n].dbCloses = 1)
  /\ [][ \A n \in Nodes : (NodeStop(n) /\ ~life[n].started) => life' = life ]_vars

\* The step is an error event appended to the events of n
EmitsError(n) ==
  /\ Len(events'[n]) = Len(events[n]) + 1
  /\ events'[n][Len(events'[n])].type = "error"
  /\ SubSeq(events'[n], 1, Len(events[n])) = events[n]

\* C21: an exception raised while an inbound message is handled becomes an
\* error event on the event bus; stated here for the presence handler: when
\* peerStore.upsert throws while a valid announcement of another peer is
\* handled, the step appends an error event.
C21_HandlerErrorBecomesEvent ==
  [][ \A ann \in Announcements :
        (/\ PresenceRecv("a", ann)
         /\ ValidRemote("a", ann)
         /\ PeerStoreUpsertThrows([firstSeen |-> ann.timestamp]))
        => EmitsError("a") ]_vars

\* C22: when a node that holds a private channel, and is not on the allowlist
\* the channel's creator set, calls sendMessage on it, the call is refused:
\* it emits an error event and starts no send, so nothing is published on the
\* topic and nothing is saved.
C22_OutsiderSendRefused ==
  [][ \A id \in ChannelIds : \A c \in Contents :
        (/\ SendStart("b", id, c)
         /\ id \in DOMAIN channels["b"]
         /\ id \in DOMAIN channels["a"]
         /\ channels["a"][id].config.creatorPubKey = "a"
         /\ channels["a"][id].config.inviteOnly
         /\ pubKeyToHex("b") \notin channels["a"][id].config.allowedMembers)
        => /\ EmitsError("b")
           /\ UNCHANGED <<pendingSend, published, dbMessages>> ]_vars

\* C23: for every channel c of the channel table and every hex string p,
\* hasAccess(c, p) is true exactly when c is not invite-only or some member
\* of c's allowedMembers equals p up to letter case; for an id that is not in
\* the table it is false.
C23_HasAccessIffAllowed ==
  \A n \in Nodes : \A id \in ChannelIds : \A p \in HexInputs :
    hasAccess(channels[n], id, p)
    = ( /\ id \in DOMAIN channels[n]
        /\ \/ ~channels[n][id].config.inviteOnly
           \/ \E v \in channels[n][id].config.allowedMembers :
                ToLowerCase(v) = ToLowerCase(p) )

\* An invite-only channel with "b" but not "c" on its allowlist, on which the
\* receive path has let an envelope through; 'team' is not in the table
C23_Witness ==
  /\ "general" \in DOMAIN channels["a"]
  /\ "team" \notin DOMAIN channels["a"]
  /\ channels["a"]["general"].config.inviteOnly
  /\ channels["a"]["general"].config.allowedMembers = {"a", "b"}
  /\ lastRecv["a"].outcome = "accepted"

\* C24: in every reachable state every channel of a node's channel table has
\* the node's own lowercase hex key in its allowedMembers, and the node has
\* access to it, whatever createChannel, createPrivateChannel,
\* createDmChannel, joinChannel, inviteMember and restarts came before.
C24_SelfAlwaysAllowed ==
  \A n \in Nodes : \A id \in DOMAIN channels[n] :
    /\ ToLowerCase(pubKeyToHex(n)) \in channels[n][id].config.allowedMembers
    /\ hasAccess(channels[n], id, pubKeyToHex(n))

\* Node "b" has joined a private channel by the code of "a", whose allowlist
\* did not name it, and has invited a peer to it
C24_Witness ==
  /\ "team" \in DOMAIN channels["b"]
  /\ channels["b"]["team"].config.creatorPubKey = "a"
  /\ channels["b"]["team"].config.inviteOnly
  /\ "b" \in channels["b"]["team"].config.allowedMembers
  /\ returned["b"] = "true"

\* C25: createChannel on a name whose id is in the channel table (directly
\* or through createPrivateChannel or createDmChannel) changes nothing: the
\* channel's state, with its group key and config, and the node's durable
\* rows are the same after the call.
C25_CreateExistingNoChange ==
  [][ \A n \in Nodes : \A id \in DOMAIN channels[n] :
        (\/ \E h \in BOOLEAN, t \in {1, 2} :
              NodeCreateChannel(n, [hash |-> h, id |-> id], t)
         \/ \E h \in BOOLEAN, t \in {1, 2}, allowed \in SUBSET HexInputs :
              NodeCreatePrivateChannel(n, [hash |-> h, id |-> id], allowed, t)
         \/ \E p \in HexInputs :
              DmChannelId(pubKeyToHex(n), p) = id /\ NodeCreateDmChannel(n, p))
        => /\ channels'[n] = channels[n]
           /\ dbChannels'[n] = dbChannels[n] ]_vars

\* One DM channel, still marked dm, after two calls of which one made it:
\* createDmChannel was called again with the peer's key
C25_Witness ==
  /\ DOMAIN channels["a"] = {"dm-a-b"}
  /\ channels["a"]["dm-a-b"].config.accessMode = "dm"
  /\ returned["a"] = "dm-a-b"
  /\ returned["b"] = "none"
  /\ channels["b"] = EmptyMap
  /\ nextKey = 2
  /\ apiCalls = 2

\* C26: for two distinct nodes A and B, createDmChannel(hex(B)) on A and
\* createDmChannel(hex(A)) on B give the same channel id in whatever letter
\* case the hex strings are typed: the id a createDmChannel call returns is
\* the id every call of the peer with this node's key returns, and two nodes
\* that hold DM channels with each other hold them under one id.
C26_DmIdSymmetric ==
  /\ [][ \A n \in Nodes : \A p \in DmPeers(n) :
           NodeCreateDmChannel(n, p)
           => /\ returned'[n] \in DOMAIN channels'[n]
              /\ \A q \in DmPeers(ToLowerCase(p)) :
                   ToLowerCase(q) = pubKeyToHex(n)
                   => DmChannelId(ToLowerCase(p), q) = returned'[n] ]_vars
  /\ [](\A n \in Nodes : \A m \in Nodes \ {n} :
          \A c \in DOMAIN channels[n] : \A d \in DOMAIN channels[m] :
            (/\ channels[n][c].config.accessMode = "dm"
             /\ channels[m][d].config.accessMode = "dm")
            => c = d)

\* Both nodes have made their DM channel, one typing the peer's key in
\* uppercase, each with a group key of its own, under one id
C26_Witness ==
  /\ returned["a"] = "dm-a-b"
  /\ returned["b"] = "dm-a-b"
  /\ "dm-a-b" \in DOMAIN channels["a"]
  /\ "dm-a-b" \in DOMAIN channels["b"]
  /\ channels["a"]["dm-a-b"].groupKey # channels["b"]["dm-a-b"].groupKey
  /\ channels["a"]["dm-a-b"].config.allowedMembers = {"a", "b"}

\* C27: inviteMember(id, peer) on a channel that is public and not
\* invite-only returns true and leaves the channel tables as they are; on any
\* other channel of the table it returns true, the peer has access
\* afterwards, every peer that had access before still has it and the group
\* key is the same; on an unknown channel it returns false and changes
\* nothing.
C27_InviteKeepsAccess ==
  [][ \A n \in Nodes : \A id \in DOMAIN channels[n] \cup ChannelIds : \A p \in HexInputs :
        NodeInviteToChannel(n, id, p)
        => IF id \notin DOMAIN channels[n]
           THEN /\ returned'[n] = "false"
                /\ UNCHANGED <<channels, dbChannels>>
           ELSE IF /\ channels[n][id].config.accessMode \in {"public", "none"}
                   /\ ~channels[n][id].config.inviteOnly
           THEN /\ returned'[n] = "true"
                /\ UNCHANGED <<channels, dbChannels>>
           ELSE /\ returned'[n] = "true"
                /\ hasAccess(channels'[n], id, p)
                /\ \A q \in HexInputs :
                     hasAccess(channels[n], id, q) => hasAccess(channels'[n], id, q)
                /\ channels'[n][id].groupKey = channels[n][id].groupKey ]_vars

\* A node's group key of a channel has not been replaced by a received one
KeyNotReplaced(n, channelId) ==
  ~\E i \in DOMAIN events[n] :
      events[n][i] = [type |-> "key-received", channelId |-> channelId]

\* C28: when node A has built a key-exchange payload for recipient B on a
\* channel it has stored and B's handler receives it, B's channel table, in
\* memory and in the store, then holds that channel with A's group key (the
\* key A built the payload from, which A still has unless it has received
\* another one since), and B emits key-received for the channel.
C28_KeyExchangeRoundTrip ==
  [][ \A p \in keyexOut :
        (/\ KeyExRecv("b", p) /\ p.senderPubKey = "a" /\ p.recipientPubKey = "b"
         /\ KeyNotReplaced("a", p.channelId))
        => /\ p.channelId \in DOMAIN channels'["b"]
           /\ channels'["b"][p.channelId].groupKey = dbChannels["a"][p.channelId].groupKey
           /\ dbChannels'["b"][p.channelId].groupKey = dbChannels["a"][p.channelId].groupKey
           /\ events'["b"] = Append(events["b"],
                                    [type |-> "key-received", channelId |-> p.channelId]) ]_vars

\* "b" has received the key of 'general' from "a" and holds it
C28_Witness ==
  /\ \E i \in DOMAIN events["b"] :
        events["b"][i] = [type |-> "key-received", channelId |-> "general"]
  /\ "general" \in DOMAIN channels["a"]
  /\ "general" \in DOMAIN channels["b"]
  /\ channels["b"]["general"].groupKey = channels["a"]["general"].groupKey
  /\ KeyNotReplaced("a", "general")

\* The limits a caller passes to getChannelHistory
HistoryLimits == {1, 2}

\* C29: getChannelHistory(channelId, limit) returns at most limit messages,
\* all of that channel and opened by the channel's current group key, nothing
\* for a channel that is not joined, and the same list before and after a
\* restart.
C29_HistorySurvivesRestart ==
  /\ [](\A n \in Nodes : \A c \in ChannelIds : \A limit \in HistoryLimits :
          \A h \in getChannelHistory(channels[n], dbMessages[n], c, limit) :
            /\ Cardinality(h) <= limit
            /\ c \notin DOMAIN channels[n] => h = {}
            /\ \A m \in h : m.channelId = c)
  /\ [][ \A n \in Nodes : \A c \in ChannelIds : \A limit \in HistoryLimits :
           Restart(n)
           => getChannelHistory(channels'[n], dbMessages'[n], c, limit)
              = getChannelHistory(channels[n], dbMessages[n], c, limit) ]_vars

\* C30: a join request's status never goes back from approved to pending:
\* every step (a repeated inbound join_request, a createJoinRequest call, a
\* further vouch) leaves an approved request approved, and a createJoinRequest
\* for a (requester, channel) that has no row stores status pending with
\* vouches_received 0.
C30_ApprovedStaysApproved ==
  /\ [][ \A key \in DOMAIN dbJoinReq["a"] :
           dbJoinReq["a"][key].status = "approved"
           => /\ key \in DOMAIN dbJoinReq'["a"]
              /\ dbJoinReq'["a"][key].status = "approved" ]_vars
  /\ [][ \A e \in Vouchees : \A c \in VouchChannels :
           ( /\ <<e, c>> \notin DOMAIN dbJoinReq["a"]
             /\ \/ TrustCreateJoinRequest("a", e, c)
                \/ \E msg \in VouchMessages :
                     /\ msg.type = "join_request"
                     /\ msg.requesterPubKey = e
                     /\ msg.channelId = c
                     /\ VouchRecv("a", msg) )
           => /\ <<e, c>> \in DOMAIN dbJoinReq'["a"]
              /\ dbJoinReq'["a"][<<e, c>>].status = "pending"
              /\ dbJoinReq'["a"][<<e, c>>].vouchesReceived = 0 ]_vars

\* A request filed by createJoinRequest and approved by one inbound vouch;
\* after channel-joined a join_request for it came in, and the node's own
\* vouch for the requester is stored as well
C30_Witness ==
  /\ <<"c", "general">> \in DOMAIN dbJoinReq["a"]
  /\ dbJoinReq["a"][<<"c", "general">>].status = "approved"
  /\ Len(events["a"]) = 3
  /\ events["a"][1].type = "vouch-received"
  /\ events["a"][2] = ChannelJoinedEvent("general")
  /\ events["a"][3].type = "join-request"
  /\ pendingVouch["a"] = EmptyBag
  /\ getVouchCount(dbVouches["a"], "c", "general") = 2

\* The group keys there are: the outsider's and every key generated so far
GroupKeys == 0 .. (nextKey - 1)

\* The byte strings a ciphertext can be altered to: another plaintext or
\* another key's output
OtherCiphertexts(ciphertext) ==
  { aeadEncrypt(k, [content |-> c, senderNick |-> Nick(s)]) :
      k \in GroupKeys, c \in Contents, s \in Keys } \ {ciphertext}

\* The byte strings a signature can be altered to: another key's signature,
\* or a signature over other bytes
OtherSignatures(env) ==
  { signMessage(g, over) :
      g \in Keys, over \in {env.ciphertext} \cup OtherCiphertexts(env.ciphertext) }
  \ {env.signature}

\* C31: decryptMessage of an envelope that encryptMessage built returns the
\* original content and sender nickname under the same group key, and null
\* under a different group key or once the ciphertext or the signature has
\* been altered.
C31_EncryptDecryptRoundTrip ==
  [][ \A n \in Nodes : \A id \in ChannelIds : \A c \in Contents :
        (SendStart(n, id, c) /\ pendingSend'[n] # pendingSend[n])
        => \A s \in pendingSend'[n] \ pendingSend[n] :
             LET groupKey == channels[n][id].groupKey
                 plain    == decryptMessage(s.env, groupKey)
             IN /\ plain # NoPlain
                /\ plain.content = c
                /\ plain.senderNick = Nick(n)
                /\ plain.senderPubKey = n
                /\ \A k \in GroupKeys \ {groupKey} : decryptMessage(s.env, k) = NoPlain
                /\ \A x \in OtherCiphertexts(s.env.ciphertext) :
                     decryptMessage([s.env EXCEPT !.ciphertext = x], groupKey) = NoPlain
                /\ \A g \in OtherSignatures(s.env) :
                     decryptMessage([s.env EXCEPT !.signature = g], groupKey) = NoPlain ]_vars

\* Both contents were encrypted under a channel's group key, and one envelope
\* is waiting for its signature
C31_Witness ==
  /\ nextKey >= 2
  /\ \E n \in Nodes : \E s \in pendingSend[n] : s.stage = "sign"
  /\ \A c \in Contents :
       \E n \in Nodes : \E s \in pendingSend[n] : s.env.ciphertext.pt.content = c

\* An announcement signed by its own key over its own fields
SignedByItsKey(ann) == ann.signature = signMessage(ann.pubKey, PresencePayload(ann))

\* C32: a presence announcement whose signature does not verify, or whose
\* public key is the node's own, changes neither onlinePeers nor the peer
\* store and emits no event; the node's own key is never a key of
\* onlinePeers.
C32_BadOrOwnAnnouncementDropped ==
  /\ [][ \A ann \in Announcements :
           (PresenceRecv("a", ann) /\ (~SignedByItsKey(ann) \/ ann.pubKey = "a"))
           => UNCHANGED <<onlinePeers, dbPeers, events>> ]_vars
  /\ [](~OnlineHas(onlinePeers["a"], pubKeyToHex("a")))
  /\ [](\A i \in DOMAIN events["a"] :
          /\ events["a"][i].type = "peer-joined" => events["a"][i].pubKey # pubKeyToHex("a")
          /\ events["a"][i].type = "presence"
               => /\ events["a"][i].announcement.pubKey # "a"
                  /\ SignedByItsKey(events["a"][i].announcement))

\* Two announcements were handled, and only one of them left an entry and
\* its two events
C32_Witness ==
  /\ deliveries = 2
  /\ Len(onlinePeers["a"]) = 1
  /\ Len(events["a"]) = 2
  /\ DOMAIN dbPeers["a"] = {"b"}

\* C33: the payload createKeyExchange returns carries a signature that
\* verifies under the sender's public key over the payload's own
\* senderPubKey, recipientPubKey, channelId and timestamp, whatever the clock
\* returns at each step of the call.
C33_KeyExchangeSignatureVerifies ==
  \A p \in keyexOut : verifySignature(p.senderPubKey, KeyExPayload(p), p.signature)

\* C34: for every stored join request (requester, channel), vouches_received
\* equals the number of vouches stored with that vouchee and channel, after
\* any sequence of createJoinRequest, createVouch and inbound vouches, also
\* when vouches were saved before the join request was created.
C34_VouchesReceivedIsCount ==
  \A key \in DOMAIN dbJoinReq["a"] :
    dbJoinReq["a"][key].vouchesReceived = getVouchCount(dbVouches["a"], key[1], key[2])

\* C35: after every facade operation and every handled inbound message a
\* node is subscribed to the chat topic of exactly the channels in its
\* channel table: a channel joined by createChannel, by invite code or by a
\* received key exchange is subscribed, a left channel is not.
C35_SubscribedIffJoined ==
  \A n \in Nodes : subs[n] = DOMAIN channels[n]

\* C36: for a channel already in the channel table no inbound peer message
\* changes its group key, creator or access policy: a key-exchange payload
\* naming an existing invite-only channel does not make it public, shrink its
\* allowedMembers or replace its group key.
C36_InboundKeepsChannel ==
  [][ \A p \in ForgedKeyEx("a") :
        (KeyExRecv("a", p) /\ p.channelId \in DOMAIN channels["a"])
        => LET old == channels["a"][p.channelId]
               new == channels'["a"][p.channelId]
           IN /\ new.groupKey = old.groupKey
              /\ new.config.creatorPubKey = old.config.creatorPubKey
              /\ new.config.accessMode = old.config.accessMode
              /\ new.config.inviteOnly = old.config.inviteOnly
              /\ old.config.allowedMembers \subseteq new.config.allowedMembers ]_vars

\* C37: no envelope is published on a channel's topic after leaveChannel for
\* that channel has completed (unless the channel is joined again): a
\* sendMessage suspended at signing or at publish when leaveChannel runs
\* publishes nothing afterwards and does not fail with a storage error.
C37_NoPublishAfterLeave ==
  /\ [][ \A s \in pendingSend["a"] :
           SendPublish("a", s) => s.topic \in DOMAIN channels["a"] ]_vars
  /\ [][ \A s \in pendingSend["a"] :
           SendSave("a", s) => ~MessageSaveThrows(dbMessages["a"], dbChannels["a"], s.env) ]_vars

\* C38: a message event is emitted only for a channel that is in the channel
\* table at the moment of emission: an inbound message whose handling is
\* suspended at verification/decryption when leaveChannel for its channel
\* runs is dropped, neither saved nor emitted.
C38_MessageEventOnlyForJoined ==
  /\ [][ \A r \in BagToSet(pendingRecv["a"]) :
           (RecvFinish("a", r) /\ r.topic \notin DOMAIN channels["a"])
           => UNCHANGED <<dbMessages, events>> ]_vars
  /\ [][ \A i \in DOMAIN events'["a"] \ DOMAIN events["a"] :
           events'["a"][i].type = "message"
           => events'["a"][i].message.channelId \in DOMAIN channels'["a"] ]_vars

\* A row of join_requests whose status is approved
IsApproved(reqs, key) == key \in DOMAIN reqs /\ reqs[key].status = "approved"

\* C39: a join request has status approved only if, when it was approved, the
\* number of distinct vouchers stored for its (requester, channel) was at
\* least the vouchThreshold of that channel in the store; no request for a
\* channel unknown to the store is ever approved by the vouch protocol.
C39_ApprovedOnlyAtThreshold ==
  [][ \A key \in DOMAIN dbJoinReq'["a"] :
        (IsApproved(dbJoinReq'["a"], key) /\ ~IsApproved(dbJoinReq["a"], key))
        => /\ key[2] \in DOMAIN dbChannels'["a"]
           /\ Cardinality({v.voucherPubKey : v \in
                 {w \in dbVouches'["a"] : w.voucheePubKey = key[1] /\ w.channelId = key[2]}})
              >= dbChannels'["a"][key[2]].vouchThreshold ]_vars

\* A request on a channel that needs two vouches was approved with two
\* vouchers stored, and every handler has run to its end
C39_Witness ==
  /\ IsApproved(dbJoinReq["a"], <<"c", "general">>)
  /\ "general" \in DOMAIN dbChannels["a"]
  /\ dbChannels["a"]["general"].vouchThreshold = 2
  /\ Cardinality({v.voucherPubKey : v \in dbVouches["a"]}) = 2
  /\ pendingVouch["a"] = EmptyBag

\* C40: for every joined channel the durable row agrees with the in-memory
\* state on group key, creator and vouchThreshold after any sequence of
\* createChannel, joinChannel (also for an id that already exists) and
\* inviteMember, so the threshold processVouchAndCheckThreshold reads from
\* the store is the one the channel manager holds.
C40_StoreAgreesWithMemory ==
  \A n \in Nodes : \A c \in DOMAIN channels[n] :
    /\ c \in DOMAIN dbChannels[n]
    /\ dbChannels[n][c].groupKey = channels[n][c].groupKey
    /\ dbChannels[n][c].creatorPubKey = channels[n][c].config.creatorPubKey
    /\ dbChannels[n][c].vouchThreshold = channels[n][c].config.vouchThreshold

====
